---- MODULE Spec2Model ----
(***************************************************************************)
(* State-machine model of the SimpliSafe 3 API client (simplisafe.js) and  *)
(* of the alarm accessory that drives it (SS3Alarm).                       *)
(*                                                                         *)
(* JavaScript runs one macrotask (an HTTP response, a timer, a call made   *)
(* by the bridge) at a time; the promise continuations it makes runnable   *)
(* are run before the next macrotask.  The model follows that: responses,  *)
(* timers and the passing of time are enabled only when no continuation    *)
(* is runnable, while a new call may start at any point.                   *)
(***************************************************************************)
EXTENDS Integers, Sequences, FiniteSets, TLC

(* ------------------------------------------------------------------ *)
(* Program constants                                                  *)
(* ------------------------------------------------------------------ *)
subscriptionCacheTime == 3000
sensorCacheTime == 3000
rateLimitInitialInterval == 60000
rateLimitMaxInterval == 2 * 60 * 60 * 1000
sensorRefreshLockoutDuration == 15000
errorSuppressionDuration == 5 * 60 * 1000
\* the default of the constructor's sensorRefreshTime
sensorRefreshTime == 15000
\* SS3Alarm
targetStateMaxRetries == 5
SOCKET_RETRY_INTERVAL == 1000

(* ------------------------------------------------------------------ *)
(* Bounds of the model                                                *)
(* ------------------------------------------------------------------ *)
\* request() calls that may be alive (unsettled, or settled and still referenced)
MaxReqs == 2
\* the clock stops advancing at MaxTime milliseconds (MaxGuardTime where
\* requests overlap)
MaxTime == 8000000
MaxGuardTime == 300000
\* number of one-second steps the clock may take on its own
MaxSeconds == 1
\* client calls (getSubscription, getSensors, ...) that may be alive
MaxTasks == 2
\* the clock stops at MaxCacheTime where the cache is exercised
MaxCacheTime == 4000
\* setTargetState operations that may be in progress
MaxOps == 2
\* a retry timer does not start an attempt beyond MaxAttempts
MaxAttempts == 7
\* the clock stops at MaxRetryTime where setTargetState is exercised
MaxRetryTime == 6000
\* the clock stops at MaxLockoutTime where the lockout is exercised
MaxLockoutTime == 19000
\* sensor subscribers, and the clock's stop where the poller is exercised
MaxSubs == 2
MaxPollTime == 31000
\* the clock's stop where the end of the setTargetState operations is followed
MaxLiveTime == 20000
\* the latest time reached where the error suppression is explored: the
\* first tick, one suppression window and one tick after it
MaxSuppressTime == 330000
\* sockets that may be open, and subscribeToEvents() calls that may have
\* attached their listeners to one socket
MaxSockets == 2
MaxSocketFailures == 14
MaxListenTime == 17000000
MaxListenTimers == 2
MaxSocketTime == 2000
MaxListeners == 2

\* 2 ** n
RECURSIVE Pow2(_)
Pow2(n) == IF n = 0 THEN 1 ELSE 2 * Pow2(n - 1)

Null == 0
Slots == 1 .. MaxReqs
TaskIds == 1 .. MaxTasks
OpIds == 1 .. MaxOps
\* the owner of a getSensors() call made by a poll tick
Poller == MaxOps + 1
\* the serials the subscribers register for
SensorIds == 1 .. MaxSubs
SensorCallbacks == 1 .. MaxSubs
SocketIds == 1 .. MaxSockets
\* the callbacks given to subscribeToEvents(): the one of the alarm's
\* startListening(), the one of another accessory
AlarmCallback == 1
OtherCallback == 2
\* the owner of the subscribeToEvents() call made by startListening()
Listener == MaxOps + 2

\* HTTP outcomes of one attempt: a status code, or NoResponse for a
\* transport failure (axios error without err.response)
NoResponse == 0
Statuses == {200, 401, 403, 409, 504, NoResponse}
\* outcomes of authManager.refreshCredentials(): resolved, rejected with
\* err.status == 403, rejected with anything else
RefreshOutcomes == {"ok", "forbidden", "failed"}
RefreshFailed == 1

\* the sid of the account's plan, and a sid a caller may name explicitly
TheSub == 1
OtherSub == 2
SubIds == {TheSub, OtherSub}
\* data.userId of /api/authCheck
TheUser == 1

VARIABLES
    now,                          \* Date.now()
    isBlocked,                    \* SimpliSafe3.isBlocked
    nextAttempt,                  \* SimpliSafe3.nextAttempt
    nextBlockInterval,            \* SimpliSafe3.nextBlockInterval
    reqs,                         \* the request() calls, by slot
    userId,                       \* SimpliSafe3.userId
    subId,                        \* SimpliSafe3.subId
    lastSubscriptionRequests,     \* SimpliSafe3.lastSubscriptionRequests
    lastSensorRequest,            \* SimpliSafe3.lastSensorRequest
    lastLockRequest,              \* SimpliSafe3.lastLockRequest
    evictTimers,                  \* pending setTimeout()s of the caches
    tasks,                        \* the calls of the client's async methods
    sensorRefreshLockoutEnabled,  \* SimpliSafe3.sensorRefreshLockoutEnabled
    sensorRefreshLockoutTimeout,  \* SimpliSafe3.sensorRefreshLockoutTimeout
    lockoutTimers,                \* pending setTimeout()s of the lockout
    locksReported,                \* some getLocks() result has held a lock
    sensorRefreshInterval,        \* SimpliSafe3.sensorRefreshInterval
    intervals,                    \* the setInterval()s that are running
    sensorSubscriptions,          \* SimpliSafe3.sensorSubscriptions
    debug,                        \* SimpliSafe3.debug
    nSuppressedErrors,            \* SimpliSafe3.nSuppressedErrors
    errorSupperessionTimeout,     \* deadline of SimpliSafe3.errorSupperessionTimeout
    service,                      \* SS3Alarm.service is linked
    nRetries,                     \* SS3Alarm.nRetries
    ops,                          \* the setTargetState operations
    socket,                       \* SimpliSafe3.socket
    sockets,                      \* the sockets io() has made
    nSocketConnectFailures,       \* SS3Alarm.nSocketConnectFailures
    listenTimers,                 \* pending setTimeout()s of startListening()
    listenStarted,                \* SS3Alarm's constructor has called startListening()
    dispatch                      \* the transport event emitted in the last step

vars == <<now, isBlocked, nextAttempt, nextBlockInterval, reqs, userId, subId,
          lastSubscriptionRequests, lastSensorRequest, lastLockRequest,
          evictTimers, tasks, sensorRefreshLockoutEnabled,
          sensorRefreshLockoutTimeout, lockoutTimers, locksReported,
          sensorRefreshInterval, intervals, sensorSubscriptions, debug,
          nSuppressedErrors, errorSupperessionTimeout, service, nRetries, ops,
          socket, sockets, nSocketConnectFailures, listenTimers, listenStarted,
          dispatch>>

\* a socket: st is none | open | closed; dbg: the logging listeners of the
\* debug mode are attached; subs: the callbacks of the subscribeToEvents()
\* calls that have attached their listeners (connect, error,
\* reconnect_failed, disconnect, event), in the order of the calls
NoSocket == [st |-> "none", dbg |-> FALSE, subs |-> <<>>]

\* a push: the fields _socketCallback reads (sid is Null when it is missing)
NoData == [sid |-> Null, eventType |-> "none", eventCid |-> 0]

\* no transport event; otherwise the socket s that emitted ev with arg (the
\* error message, the disconnect reason) or data (the push), and the calls
\* made to the callbacks, in order
NoDispatch == [s |-> Null, ev |-> "none", arg |-> "none", data |-> NoData, to |-> <<>>]

\* the whole state as one record, threaded through the steps of a handler;
\* stuck is set when a step needs a request slot and the model has none left
State ==
    [isBlocked |-> isBlocked, nextAttempt |-> nextAttempt,
     nextBlockInterval |-> nextBlockInterval, reqs |-> reqs, userId |-> userId,
     subId |-> subId, lastSubscriptionRequests |-> lastSubscriptionRequests,
     lastSensorRequest |-> lastSensorRequest, lastLockRequest |-> lastLockRequest,
     evictTimers |-> evictTimers, tasks |-> tasks,
     sensorRefreshLockoutEnabled |-> sensorRefreshLockoutEnabled,
     sensorRefreshLockoutTimeout |-> sensorRefreshLockoutTimeout,
     lockoutTimers |-> lockoutTimers, locksReported |-> locksReported,
     sensorRefreshInterval |-> sensorRefreshInterval, intervals |-> intervals,
     sensorSubscriptions |-> sensorSubscriptions, debug |-> debug,
     nSuppressedErrors |-> nSuppressedErrors,
     errorSupperessionTimeout |-> errorSupperessionTimeout,
     service |-> service, nRetries |-> nRetries, ops |-> ops,
     socket |-> socket, sockets |-> sockets,
     nSocketConnectFailures |-> nSocketConnectFailures,
     listenTimers |-> listenTimers, listenStarted |-> listenStarted,
     dispatch |-> NoDispatch, stuck |-> FALSE]

(* ------------------------------------------------------------------ *)
(* Rate-limit guard                                                   *)
(* ------------------------------------------------------------------ *)
resetRateLimitHandler(c) ==
    [c EXCEPT !.isBlocked = FALSE, !.nextBlockInterval = rateLimitInitialInterval]

setRateLimitHandler(c) ==
    [c EXCEPT !.isBlocked = TRUE,
              !.nextAttempt = now + c.nextBlockInterval,
              !.nextBlockInterval = IF c.nextBlockInterval < rateLimitMaxInterval
                                    THEN c.nextBlockInterval * 2
                                    ELSE c.nextBlockInterval]

\* (mutant: the guard blocks for as long as isBlocked is set)
ShouldBlockNoDeadline(c) == c.isBlocked

\* the test at the entry of request() and of subscribeToEvents()
ShouldBlock(c) == c.isBlocked /\ now < c.nextAttempt

(* ------------------------------------------------------------------ *)
(* request(params, tokenRefreshed)                                    *)
(* ------------------------------------------------------------------ *)
\* phase: free | http1 | refresh | http2 | ok | rle | err
\*   http1/http2: the first / the retried HTTP attempt is in flight
\*   refresh: refreshCredentials() is in flight
\*   ok: resolved with response.data; rle: rejected with RateLimitError
\*        (code = 403, NoResponse, or 0 when the guard blocked the call);
\*   err: rejected with the response body (code = its status) or with the
\*        refresh error (code = RefreshFailed)
\* kind: raw | authCheck | subs | sub | sensors | locks | state | lockstate
\* key: the subscription id of a "sub" request
\* attempts: HTTP attempts made; refreshes: refreshCredentials() calls made
\* n: what the response body carries (number of plans, of locks)
\* blk: this.isBlocked at the entry of request()
FreeReq == [phase |-> "free", kind |-> "none", key |-> Null, attempts |-> 0,
            refreshes |-> 0, code |-> 0, n |-> 0, blk |-> FALSE]

Unsettled(r) == r.phase \in {"http1", "refresh", "http2"}
Settled(r) == r.phase \in {"ok", "rle", "err"}

\* the requests made through a cache carry the .finally() that schedules
\* the eviction of the cache entry
Cached(kind) == kind \in {"sub", "sensors", "locks"}
cacheTime(kind) == IF kind = "sub" THEN subscriptionCacheTime ELSE sensorCacheTime

\* .finally(() => setTimeout(() => { entry = null }, cacheTime))
scheduleEviction(c, i) ==
    IF Cached(c.reqs[i].kind) /\ Settled(c.reqs[i])
    THEN [c EXCEPT !.evictTimers = @ \cup {[kind |-> c.reqs[i].kind, key |-> c.reqs[i].key,
                                             at |-> now + cacheTime(c.reqs[i].kind)]}]
    ELSE c

\* request() up to its first await: rejected at once when the guard
\* blocks, otherwise the HTTP call is issued
requestEntry(c, kind, key) ==
    IF ShouldBlock(c)
    THEN [FreeReq EXCEPT !.phase = "rle", !.kind = kind, !.key = key, !.blk = c.isBlocked]
    ELSE [FreeReq EXCEPT !.phase = "http1", !.kind = kind, !.key = key,
                         !.attempts = 1, !.blk = c.isBlocked]

\* the retried request(params, true) after a successful refresh
retryEntry(c, r) ==
    IF ShouldBlock(c)
    THEN [r EXCEPT !.phase = "rle"]
    ELSE [r EXCEPT !.phase = "http2", !.attempts = @ + 1]

\* (mutant: a 401 on the retried attempt refreshes the token again)
respondReqRefreshAgain(r, status, n) ==
    CASE status = 200 -> [r EXCEPT !.phase = "ok", !.n = n]
      [] status = NoResponse -> [r EXCEPT !.phase = "rle", !.code = status]
      [] status = 401 -> [r EXCEPT !.phase = "refresh", !.refreshes = @ + 1]
      [] status = 403 -> [r EXCEPT !.phase = "rle", !.code = status]
      [] OTHER -> [r EXCEPT !.phase = "err", !.code = status]

\* the request after the response `status` (body payload n) to its
\* attempt in flight
respondReq(r, status, n) ==
    CASE status = 200 -> [r EXCEPT !.phase = "ok", !.n = n]
      [] status = NoResponse -> [r EXCEPT !.phase = "rle", !.code = status]
      [] status = 401 /\ r.phase = "http1" -> [r EXCEPT !.phase = "refresh", !.refreshes = @ + 1]
      [] status = 403 -> [r EXCEPT !.phase = "rle", !.code = status]
      [] OTHER -> [r EXCEPT !.phase = "err", !.code = status]

\* (mutant: a 403 engages the guard twice)
respondGuardTwice(c, status) ==
    CASE status = 200 -> resetRateLimitHandler(c)
      [] status = 403 -> setRateLimitHandler(setRateLimitHandler(c))
      [] OTHER -> c

\* (mutant: a failure without response engages the guard)
respondGuardNoResponse(c, status) ==
    CASE status = 200 -> resetRateLimitHandler(c)
      [] status \in {403, NoResponse} -> setRateLimitHandler(c)
      [] OTHER -> c

\* the guard after that response
respondGuard(c, status) ==
    CASE status = 200 -> resetRateLimitHandler(c)
      [] status = 403 -> setRateLimitHandler(c)
      [] OTHER -> c

\* the client after the response to the attempt of request i
respond(c, i, status, n) ==
    LET c1 == respondGuard(c, status)
        c2 == [c1 EXCEPT !.reqs[i] = respondReq(c.reqs[i], status, n)]
    IN scheduleEviction(c2, i)

\* the client after refreshCredentials() of request i settles
refreshSettles(c, i, outcome) ==
    LET c1 == IF outcome = "forbidden" THEN setRateLimitHandler(c) ELSE c
        r == c.reqs[i]
        c2 == [c1 EXCEPT !.reqs[i] =
                 CASE outcome = "ok" -> retryEntry(c1, r)
                   [] outcome = "forbidden" -> [r EXCEPT !.phase = "rle", !.code = 403]
                   [] OTHER -> [r EXCEPT !.phase = "err", !.code = RefreshFailed]]
    IN scheduleEviction(c2, i)

(* ------------------------------------------------------------------ *)
(* Calls of the client's async methods                                *)
(* ------------------------------------------------------------------ *)
\* op: getSubscription | getSensors | getLocks | setAlarmState | setLockState
\* pc: idle | authCheck | subs | nested | main | done: the await the call is
\*     suspended at: getUserId()'s request, getSubscriptions()'s request, the
\*     cached request of a nested getSubscription(), the call's own request
\* key, force, arg: the arguments; wait: the request awaited
\* issued: the call itself has issued the cached request it awaits
\* res: ok | rle | err | invalid | noplan | multi; code: the status in an err
IdleTask == [op |-> "none", pc |-> "idle", key |-> Null, force |-> FALSE,
             arg |-> <<>>, wait |-> Null, issued |-> FALSE, res |-> "none",
             code |-> 0, owner |-> Null]

Awaiting == {"authCheck", "subs", "nested", "main"}

\* a setTargetState operation
\* st: idle | calling | waiting | done: awaiting setAlarmState(), waiting for
\*     its retry timer, ended with the callback called
\* attempts: setAlarmState() calls made; retryAt: deadline of the retry timer
\* cb: none | ok | error: what the callback was called with
\* solo: no other operation has been in progress during this one
IdleOp == [st |-> "idle", attempts |-> 0, retryAt |-> Null, cb |-> "none", solo |-> TRUE]
Active(op) == op.st \in {"calling", "waiting"}

\* a continuation is runnable: the promise the call awaits has settled
\* (pc = "yield": the call awaits a promise that is already resolved)
Runnable(c, t) ==
    \/ c.tasks[t].pc = "yield"
    \/ c.tasks[t].pc \in Awaiting /\ Settled(c.reqs[c.tasks[t].wait])
\* the calls that have ended and whose caller `owner` has yet to resume
Ended(c, owner) == {t \in TaskIds : c.tasks[t].pc = "done" /\ c.tasks[t].owner = owner}
OpRunnable(c, o) == c.ops[o].st = "calling" /\ Ended(c, o) # {}
Quiescent(c) ==
    /\ \A t \in TaskIds : ~Runnable(c, t)
    /\ \A o \in OpIds : ~OpRunnable(c, o)
    /\ Ended(c, Poller) = {}
    /\ Ended(c, Listener) = {}

entryOf(c, kind, key) ==
    CASE kind = "sub" -> c.lastSubscriptionRequests[key]
      [] kind = "sensors" -> c.lastSensorRequest
      [] OTHER -> c.lastLockRequest

setEntry(c, kind, key, v) ==
    CASE kind = "sub" -> [c EXCEPT !.lastSubscriptionRequests[key] = v]
      [] kind = "sensors" -> [c EXCEPT !.lastSensorRequest = v]
      [] OTHER -> [c EXCEPT !.lastLockRequest = v]

\* a slot is in use while its request is unsettled, a call awaits it or a
\* cache holds it
Referenced(c, i) ==
    \/ \E t \in TaskIds : c.tasks[t].pc \in Awaiting /\ c.tasks[t].wait = i
    \/ \E k \in SubIds : c.lastSubscriptionRequests[k] = i
    \/ c.lastSensorRequest = i
    \/ c.lastLockRequest = i
Reusable(c, i) ==
    c.reqs[i].phase = "free" \/ (Settled(c.reqs[i]) /\ ~Referenced(c, i))
HasSlot(c) == \E i \in Slots : Reusable(c, i)
NewSlot(c) == CHOOSE i \in Slots : Reusable(c, i) /\ \A j \in Slots : Reusable(c, j) => i <= j

\* the slots of the settled requests that nothing refers to any more are
\* given back (those of direct request() calls stay until they are reused)
collect(c) ==
    [i \in Slots |-> IF Settled(c.reqs[i]) /\ ~Referenced(c, i) /\ c.reqs[i].kind # "raw"
                     THEN FreeReq ELSE c.reqs[i]]

\* the state after a step
Set(c) ==
    /\ ~c.stuck
    /\ isBlocked' = c.isBlocked
    /\ nextAttempt' = c.nextAttempt
    /\ nextBlockInterval' = c.nextBlockInterval
    /\ reqs' = collect(c)
    /\ userId' = c.userId
    /\ subId' = c.subId
    /\ lastSubscriptionRequests' = c.lastSubscriptionRequests
    /\ lastSensorRequest' = c.lastSensorRequest
    /\ lastLockRequest' = c.lastLockRequest
    /\ evictTimers' = c.evictTimers
    /\ tasks' = c.tasks
    /\ sensorRefreshLockoutEnabled' = c.sensorRefreshLockoutEnabled
    /\ sensorRefreshLockoutTimeout' = c.sensorRefreshLockoutTimeout
    /\ lockoutTimers' = c.lockoutTimers
    /\ locksReported' = c.locksReported
    /\ sensorRefreshInterval' = c.sensorRefreshInterval
    /\ intervals' = c.intervals
    /\ sensorSubscriptions' = c.sensorSubscriptions
    /\ debug' = c.debug
    /\ nSuppressedErrors' = c.nSuppressedErrors
    /\ errorSupperessionTimeout' = c.errorSupperessionTimeout
    /\ service' = c.service
    /\ nRetries' = c.nRetries
    /\ ops' = c.ops
    /\ socket' = c.socket
    /\ sockets' = c.sockets
    /\ nSocketConnectFailures' = c.nSocketConnectFailures
    /\ listenTimers' = c.listenTimers
    /\ listenStarted' = c.listenStarted
    /\ dispatch' = c.dispatch

\* call t calls request() and awaits it at pc
issue(c, t, kind, key, pc) ==
    IF ~HasSlot(c) THEN [c EXCEPT !.stuck = TRUE]
    ELSE LET i == NewSlot(c)
             c1 == [c EXCEPT !.reqs[i] = requestEntry(c, kind, key),
                             !.tasks[t].wait = i, !.tasks[t].pc = pc,
                             !.tasks[t].issued = TRUE]
         IN scheduleEviction(c1, i)

\* (mutant: the cache is never consulted)
MustIssueAlways(force, entry) == TRUE

\* the test of getSubscription(), getSensors(), getLocks() on their cache
MustIssue(force, entry) == force \/ entry = Null

\* if (forceRefresh || !this.lastXRequest) { this.lastXRequest = this.request(...) }
\* let data = await this.lastXRequest
cachedGet(c, t, kind, key, force, pc) ==
    IF MustIssue(force, entryOf(c, kind, key))
    THEN LET c1 == issue(c, t, kind, key, pc)
         IN IF c1.stuck THEN c1 ELSE setEntry(c1, kind, key, c1.tasks[t].wait)
    ELSE [c EXCEPT !.tasks[t].wait = entryOf(c, kind, key), !.tasks[t].pc = pc,
                   !.tasks[t].issued = FALSE]

\* the call ends: resolved (res = "ok") or rejected
\* (the record keeps what the caller gets and, of a rejected argument, the
\* call that was made)
finish(c, t, res, code) ==
    [c EXCEPT !.tasks[t] =
        IF res = "invalid"
        THEN [IdleTask EXCEPT !.op = c.tasks[t].op, !.arg = c.tasks[t].arg,
                              !.owner = c.tasks[t].owner, !.pc = "done", !.res = res]
        ELSE [IdleTask EXCEPT !.owner = c.tasks[t].owner, !.pc = "done",
                              !.res = res, !.code = code]]

\* the await of call t throws what its request was rejected with
\* (mutant: the caller gets an error of its own, not the one of the request)
throwAwaitedOwn(c, t) == finish(c, t, "err", 0)

throwAwaited(c, t) ==
    finish(c, t, c.reqs[c.tasks[t].wait].phase, c.reqs[c.tasks[t].wait].code)

\* the await of the call: not counted as a reference to its slot any more
detach(c, t) == [c EXCEPT !.tasks[t].pc = "run"]

(* handleSensorRefreshLockout() *)
\* a handle no timer has (setTimeout() returns a new object each time)
FreshTimer(timers) ==
    CHOOSE k \in 1 .. (Cardinality(timers) + 1) : \A tm \in timers : tm.id # k

\* (mutant: the pending timer is left running)
clearTimeoutNothing(timers, handle) == timers

clearTimeout(timers, handle) == {tm \in timers : tm.id # handle}

handleSensorRefreshLockout(c) ==
    IF ~c.sensorRefreshLockoutEnabled THEN c
    ELSE LET left == clearTimeout(c.lockoutTimers, c.sensorRefreshLockoutTimeout)
             id == FreshTimer(c.lockoutTimers)
         IN [c EXCEPT !.lockoutTimers = left \cup {[id |-> id, at |-> now + sensorRefreshLockoutDuration]},
                      !.sensorRefreshLockoutTimeout = id]

(* toLowerCase() on the characters the states are written in *)
UpperChars == <<"A", "B", "C", "E", "F", "G", "H", "K", "L", "M", "N", "O", "S", "U", "W", "Y">>
LowerChars == <<"a", "b", "c", "e", "f", "g", "h", "k", "l", "m", "n", "o", "s", "u", "w", "y">>
lowerChar(ch) ==
    IF \E k \in DOMAIN UpperChars : UpperChars[k] = ch
    THEN LowerChars[CHOOSE k \in DOMAIN UpperChars : UpperChars[k] = ch]
    ELSE ch
toLowerCase(str) == [k \in DOMAIN str |-> lowerChar(str[k])]

validAlarmStates == {<<"o", "f", "f">>, <<"h", "o", "m", "e">>, <<"a", "w", "a", "y">>}
validLockStates == {<<"l", "o", "c", "k">>, <<"u", "n", "l", "o", "c", "k">>}

\* (mutant: the state is compared as it was written)
InvalidStateAsWritten(op, arg) ==
    IF op = "setAlarmState" THEN arg \notin validAlarmStates
    ELSE arg \notin validLockStates

\* validAlarmStates.indexOf(state) == -1, validLockStates.indexOf(state) == -1
InvalidState(op, arg) ==
    IF op = "setAlarmState" THEN toLowerCase(arg) \notin validAlarmStates
    ELSE toLowerCase(arg) \notin validLockStates

(* subscribeToEvents(callback), unsubscribeFromEvents() *)
\* this.socket.on('connect', ...) ... this.socket.on('event', _socketCallback)
attach(c, cb) ==
    IF Len(c.sockets[c.socket].subs) >= MaxListeners THEN [c EXCEPT !.stuck = TRUE]
    ELSE [c EXCEPT !.sockets[c.socket].subs = Append(@, cb)]

HasSocket(c) == \E s \in SocketIds : c.sockets[s].st = "none"
NewSocket(c) ==
    CHOOSE s \in SocketIds :
        c.sockets[s].st = "none" /\ \A u \in SocketIds : c.sockets[u].st = "none" => s <= u

\* this.socket = io(...), the logging listeners in debug mode, and the
\* listeners of the call; the call resolves
connectSocket(c, t) ==
    IF ~HasSocket(c) THEN [c EXCEPT !.stuck = TRUE]
    ELSE LET s == NewSocket(c)
             c1 == [c EXCEPT !.socket = s,
                             !.sockets[s] = [st |-> "open", dbg |-> c.debug, subs |-> <<>>]]
         IN finish(attach(c1, c.tasks[t].key), t, "ok", 0)

\* (mutant: the call does not test the guard at its entry)
subscribeToEventsUnguarded(c, t) ==
    IF c.socket = Null
    THEN IF c.userId # Null THEN [c EXCEPT !.tasks[t].pc = "yield"]
         ELSE issue(c, t, "authCheck", Null, "authCheck")
    ELSE finish(attach(c, c.tasks[t].key), t, "ok", 0)

\* up to its first await (the callback is the key of the call)
subscribeToEvents(c, t) ==
    IF ShouldBlock(c) THEN finish(c, t, "rle", 0)
    ELSE IF c.socket = Null
         THEN IF c.userId # Null THEN [c EXCEPT !.tasks[t].pc = "yield"]
              ELSE issue(c, t, "authCheck", Null, "authCheck")
         ELSE finish(attach(c, c.tasks[t].key), t, "ok", 0)

\* (mutant: the socket is made whatever getUserId() ended with)
resumeSubscribeAnyway(c, t) == connectSocket(detach(c, t), t)

\* after its await of getUserId()
resumeSubscribe(c, t) ==
    LET tk == c.tasks[t]
        c0 == detach(c, t)
    IN IF tk.pc = "yield" THEN connectSocket(c0, t)
       ELSE IF c.reqs[tk.wait].phase # "ok" THEN throwAwaited(c, t)
       ELSE connectSocket([c0 EXCEPT !.userId = TheUser], t)

unsubscribeFromEvents(c) ==
    IF c.socket = Null THEN c
    ELSE [c EXCEPT !.sockets[c.socket] = [NoSocket EXCEPT !.st = "closed"],
                   !.socket = Null]

(* getAlarmState() *)
validStates == {"OFF", "HOME", "AWAY", "AWAY_COUNT", "HOME_COUNT", "ALARM_COUNT", "ALARM"}

\* the subscriptions a response body n can carry: location.system present or
\* not, its isAlarming and its alarmState
SubBodies ==
    <<[system |-> TRUE, isAlarming |-> FALSE, alarmState |-> "OFF"],
      [system |-> TRUE, isAlarming |-> FALSE, alarmState |-> "HOME"],
      [system |-> TRUE, isAlarming |-> FALSE, alarmState |-> "AWAY"],
      [system |-> TRUE, isAlarming |-> FALSE, alarmState |-> "AWAY_COUNT"],
      [system |-> TRUE, isAlarming |-> FALSE, alarmState |-> "HOME_COUNT"],
      [system |-> TRUE, isAlarming |-> FALSE, alarmState |-> "ALARM_COUNT"],
      [system |-> TRUE, isAlarming |-> FALSE, alarmState |-> "ALARM"],
      [system |-> TRUE, isAlarming |-> TRUE, alarmState |-> "OFF"],
      [system |-> TRUE, isAlarming |-> FALSE, alarmState |-> "UNKNOWN"],
      [system |-> TRUE, isAlarming |-> TRUE, alarmState |-> "UNKNOWN"],
      [system |-> FALSE, isAlarming |-> FALSE, alarmState |-> "OFF"]>>
SubBody(n) == SubBodies[n + 1]

\* (mutant: the retry parameter is never set)
IsRetryNever(tk) == FALSE

\* the retry parameter of the call
IsRetry(tk) == tk.arg = <<"retry">>

\* getAlarmState() after its await of getSubscription(null, forceRefresh)
alarmState(c, t) ==
    LET tk == c.tasks[t]
        subscription == SubBody(c.reqs[tk.wait].n)
    IN IF ~subscription.system THEN finish(c, t, "Subscription format not understood", 0)
       ELSE IF subscription.isAlarming THEN finish(c, t, "ALARM", 0)
       ELSE IF subscription.alarmState \notin validStates
            THEN IF ~IsRetry(tk)
                 THEN cachedGet([c EXCEPT !.tasks[t].arg = <<"retry">>, !.tasks[t].force = TRUE,
                                          !.tasks[t].pc = "run"],
                                t, "sub", c.subId, TRUE, "main")
                 ELSE finish(c, t, "Alarm state not understood", 0)
       ELSE finish(c, t, subscription.alarmState, 0)

(* getSubscriptions() from its call of getUserId() on *)
\* (mutant: getUserId() asks the upstream every time)
startDiscoveryAnew(c, t) == issue(c, t, "authCheck", Null, "authCheck")

startDiscovery(c, t) ==
    IF c.userId # Null
    THEN issue(c, t, "subs", Null, "subs")
    ELSE issue(c, t, "authCheck", Null, "authCheck")

\* the body of a method after its "if (!this.subId) await this.getSubscription()"
body(c, t) ==
    LET tk == c.tasks[t]
    IN CASE tk.op = "getSensors" -> cachedGet(c, t, "sensors", Null, tk.force, "main")
         [] tk.op = "getLocks" -> cachedGet(c, t, "locks", Null, tk.force, "main")
         [] tk.op = "setAlarmState" -> issue(c, t, "state", Null, "main")
         [] OTHER -> issue(c, t, "lockstate", Null, "main")

\* a method up to its first await
start(c, t, op, key, force, arg, owner) ==
    LET c1 == [c EXCEPT !.tasks[t] = [IdleTask EXCEPT !.op = op, !.key = key, !.force = force,
                                                     !.arg = arg, !.owner = owner, !.pc = "run"]]
    IN CASE op = "subscribeToEvents" -> subscribeToEvents(c1, t)
         [] op = "getAlarmState" ->
              IF c1.subId # Null
              THEN cachedGet([c1 EXCEPT !.tasks[t].key = c1.subId], t, "sub", c1.subId, force, "main")
              ELSE startDiscovery(c1, t)
         [] op = "getSubscription" ->
              IF key # Null THEN cachedGet(c1, t, "sub", key, force, "main")
              ELSE IF c1.subId # Null
                   THEN cachedGet([c1 EXCEPT !.tasks[t].key = c1.subId], t, "sub", c1.subId, force, "main")
                   ELSE startDiscovery(c1, t)
         [] op \in {"setAlarmState", "setLockState"} /\ InvalidState(op, arg) ->
              finish(c1, t, "invalid", 0)
         [] OTHER ->
              IF c1.subId = Null THEN startDiscovery(c1, t) ELSE body(c1, t)

\* the continuation of call t after the promise it awaits has settled
resume(c, t) ==
    LET tk == c.tasks[t]
        r == c.reqs[tk.wait]
        c0 == detach(c, t)
    IN IF tk.op = "subscribeToEvents" THEN resumeSubscribe(c, t)
       ELSE IF r.phase # "ok" THEN throwAwaited(c, t)
       ELSE CASE tk.pc = "authCheck" ->
                   issue([c0 EXCEPT !.userId = TheUser], t, "subs", Null, "subs")
              [] tk.pc = "subs" ->
                   LET c1 == IF r.n = 1 THEN [c0 EXCEPT !.subId = TheSub] ELSE c0
                   IN IF r.n = 1
                      THEN cachedGet([c1 EXCEPT !.tasks[t].key = TheSub], t, "sub", TheSub,
                                     tk.op \in {"getSubscription", "getAlarmState"} /\ tk.force,
                                     IF tk.op \in {"getSubscription", "getAlarmState"}
                                     THEN "main" ELSE "nested")
                      ELSE finish(c1, t, IF r.n = 0 THEN "noplan" ELSE "multi", 0)
              [] tk.pc = "nested" -> body(c0, t)
              [] OTHER ->
                   CASE tk.op = "getLocks" ->
                          finish([c EXCEPT !.sensorRefreshLockoutEnabled = (r.n > 0),
                                           !.locksReported = @ \/ (r.n > 0)], t, "ok", 0)
                     [] tk.op = "setAlarmState" ->
                          finish(handleSensorRefreshLockout(c), t, "ok", 0)
                     [] tk.op = "getSensors" -> finish(c, t, "ok", r.n)
                     [] tk.op = "getAlarmState" -> alarmState(c, t)
                     [] OTHER -> finish(c, t, "ok", 0)

\* a call record can be taken: never used, or ended with nobody to resume
Free(c, t) ==
    c.tasks[t].pc = "idle" \/ (c.tasks[t].pc = "done" /\ c.tasks[t].owner = Null)
HasTask(c) == \E t \in TaskIds : Free(c, t)
NewTask(c) == CHOOSE t \in TaskIds : Free(c, t) /\ \A u \in TaskIds : Free(c, u) => t <= u

\* the owner calls a method of the client and awaits it
spawn(c, op, force, arg, owner) ==
    IF ~HasTask(c) THEN [c EXCEPT !.stuck = TRUE]
    ELSE start(c, NewTask(c), op, Null, force, arg, owner)

(* SS3Alarm.setTargetState(homekitState, callback) *)
\* TARGET_HOMEKIT_TO_SS3[homekitState]
TargetState == <<"O", "F", "F">>

\* up to its first await
setTargetState(c, o) ==
    IF ~c.service
    THEN [c EXCEPT !.ops[o].st = "done", !.ops[o].cb = "error"]
    ELSE LET c1 == spawn(c, "setAlarmState", FALSE, TargetState, o)
         IN [c1 EXCEPT !.ops[o].st = "calling", !.ops[o].attempts = @ + 1]

\* (mutant: the retry test admits one more retry)
ShouldRetryOnceMore(c, res, code) ==
    res = "err" /\ code \in {409, 504} /\ c.nRetries <= targetStateMaxRetries

\* [409, 504].indexOf(parseInt(err.statusCode)) !== -1 && this.nRetries < targetStateMaxRetries
\* (the bodies of the error responses carry their status as statusCode; a
\* RateLimitError and an Error carry none)
ShouldRetry(c, res, code) ==
    res = "err" /\ code \in {409, 504} /\ c.nRetries < targetStateMaxRetries

\* (mutant: when the retries are over, the callback is not called)
settleSilent(c, o) ==
    LET t == CHOOSE u \in Ended(c, o) : TRUE
        tk == c.tasks[t]
        c1 == [c EXCEPT !.tasks[t] = IdleTask]
    IN IF tk.res = "ok"
       THEN [c1 EXCEPT !.nRetries = 0, !.ops[o].st = "done", !.ops[o].cb = "ok"]
       ELSE IF ShouldRetry(c, tk.res, tk.code)
            THEN [c1 EXCEPT !.nRetries = @ + 1, !.ops[o].st = "waiting",
                            !.ops[o].retryAt = now + 1000]
            ELSE [c1 EXCEPT !.nRetries = 0, !.ops[o].st = "done"]

\* after the await of setAlarmState()
\* (the refreshState() scheduled after an exit delay is a later
\* getSubscription() call of its own)
settle(c, o) ==
    LET t == CHOOSE u \in Ended(c, o) : TRUE
        tk == c.tasks[t]
        c1 == [c EXCEPT !.tasks[t] = IdleTask]
    IN IF tk.res = "ok"
       THEN [c1 EXCEPT !.nRetries = 0, !.ops[o].st = "done", !.ops[o].cb = "ok"]
       ELSE IF ShouldRetry(c, tk.res, tk.code)
            THEN [c1 EXCEPT !.nRetries = @ + 1, !.ops[o].st = "waiting",
                            !.ops[o].retryAt = now + 1000]
            ELSE [c1 EXCEPT !.nRetries = 0, !.ops[o].st = "done", !.ops[o].cb = "error"]

(* subscribeToSensor(id, callback), unsubscribeFromSensor(id) *)
FreshInterval(timers) ==
    CHOOSE k \in 1 .. (Cardinality(timers) + 1) : \A tm \in timers : tm.id # k

clearInterval(timers, handle) == {tm \in timers : tm.id # handle}

subscribeToSensor(c, id, callback) ==
    LET h == FreshInterval(c.intervals)
        c1 == IF c.sensorRefreshInterval = Null
              THEN [c EXCEPT !.sensorRefreshInterval = h,
                             !.intervals = @ \cup {[id |-> h, at |-> now + sensorRefreshTime]}]
              ELSE c
    IN [c1 EXCEPT !.sensorSubscriptions = Append(@, [id |-> id, callback |-> callback])]

unsubscribeFromSensor(c, id) ==
    LET left == SelectSeq(c.sensorSubscriptions, LAMBDA sub : sub.id # id)
        c1 == [c EXCEPT !.sensorSubscriptions = left]
    IN IF Len(left) = 0
       THEN [c1 EXCEPT !.intervals = clearInterval(@, c.sensorRefreshInterval)]
       ELSE c1

\* the serials of the sensors in the list n that getSensors() returns
Serials(n) == {id \in SensorIds : (n \div Pow2(id - 1)) % 2 = 1}

\* sub.callback(sensor) for every subscription
callsForAll(subs, serial) ==
    [i \in 1 .. Len(subs) |-> <<subs[i].callback, serial>>]

\* sub.callback(sensor) for the subscriptions the filter lets through
callsFor(subs, serial) ==
    LET hit == SelectSeq(subs, LAMBDA sub : sub.id = serial)
    IN [i \in 1 .. Len(hit) |-> <<hit[i].callback, serial>>]

\* for (let sensor of sensors), from serial on
RECURSIVE fanOut(_, _, _)
fanOut(subs, n, serial) ==
    IF serial > MaxSubs THEN <<>>
    ELSE (IF serial \in Serials(n) THEN callsFor(subs, serial) ELSE <<>>)
             \o fanOut(subs, n, serial + 1)

\* (mutant: the tick does not look at the lockout)
pollTickDespiteLockout(c) ==
    IF Len(c.sensorSubscriptions) = 0 THEN c
    ELSE spawn(c, "getSensors", FALSE, <<>>, Poller)

\* a call of this.log.error() or this.log.warn() made by the poll, recorded
\* as the step's dispatch: arg is the level, n the number of errors named
Logger == 0
logged(level, n) ==
    [NoDispatch EXCEPT !.ev = "log", !.arg = level, !.to = <<<<Logger, n>>>>]

\* the callback of the setInterval(), up to its await
pollTick(c) ==
    IF Len(c.sensorSubscriptions) = 0 THEN c
    ELSE IF c.sensorRefreshLockoutTimeout # Null THEN c
    ELSE spawn(c, "getSensors", FALSE, <<>>, Poller)

\* the callback after its await of getSensors(true): the sensors go to the
\* subscribers, or the error is logged or counted
pollSettle(c, t) ==
    LET tk == c.tasks[t]
        c1 == [c EXCEPT !.tasks[t] = IdleTask]
    IN CASE tk.res = "ok" ->
              [c1 EXCEPT !.dispatch = [NoDispatch EXCEPT !.ev = "sensors",
                                          !.to = fanOut(c.sensorSubscriptions, tk.code, 1)]]
         [] tk.res = "rle" -> c1
         [] c.debug -> [c1 EXCEPT !.dispatch = logged("error", 0)]
         [] c.errorSupperessionTimeout = Null ->
              [c1 EXCEPT !.nSuppressedErrors = 1,
                         !.errorSupperessionTimeout = now + errorSuppressionDuration]
         [] OTHER -> [c1 EXCEPT !.nSuppressedErrors = @ + 1]

(* SS3Alarm.startListening() *)
FreshListenTimer(timers) ==
    CHOOSE k \in 1 .. (Cardinality(timers) + 1) : \A tm \in timers : tm.id # k

\* setTimeout(async () => { await this.startListening() }, delay)
retryListening(c, delay) ==
    IF Cardinality(c.listenTimers) >= MaxListenTimers THEN [c EXCEPT !.stuck = TRUE]
    ELSE [c EXCEPT !.listenTimers = @ \cup {[id |-> FreshListenTimer(@), at |-> now + delay]}]

\* up to its await of subscribeToEvents()
startListening(c) ==
    IF ~HasTask(c) THEN [c EXCEPT !.stuck = TRUE]
    ELSE start(c, NewTask(c), "subscribeToEvents", AlarmCallback, FALSE, <<>>, Listener)

\* after the await: the catch block
listenSettle(c, t) ==
    LET tk == c.tasks[t]
        c1 == [c EXCEPT !.tasks[t] = IdleTask]
    IN IF tk.res = "rle"
       THEN [retryListening(c1, Pow2(c.nSocketConnectFailures) * SOCKET_RETRY_INTERVAL)
                EXCEPT !.nSocketConnectFailures = @ + 1]
       ELSE c1

\* the callback startListening() gives to subscribeToEvents(), as far as it
\* changes the accessory's state
alarmCallback(c, event) ==
    CASE event = "CONNECTED" -> [c EXCEPT !.nSocketConnectFailures = 0]
      [] event = "CONNECTION_LOST" -> retryListening(c, SOCKET_RETRY_INTERVAL)
      [] OTHER -> c

\* callback(event, data)
deliver(c, cb, event) ==
    LET c1 == [c EXCEPT !.dispatch.to = Append(@, <<cb, event>>)]
    IN IF cb = AlarmCallback THEN alarmCallback(c1, event) ELSE c1

(* the listeners subscribeToEvents() attaches *)
\* the event of the inner switch of _socketCallback; "none": the callback
\* is not called; "null": callback(null, data)
eventOfCid(eventCid) ==
    CASE eventCid \in {1400, 1407} -> "ALARM_DISARM"
      [] eventCid = 1406 -> "ALARM_CANCEL"
      [] eventCid = 1409 -> "MOTION"
      [] eventCid = 9441 -> "HOME_EXIT_DELAY"
      [] eventCid \in {3441, 3491} -> "HOME_ARM"
      [] eventCid \in {9401, 9407} -> "AWAY_EXIT_DELAY"
      [] eventCid \in {3401, 3407, 3487, 3481} -> "AWAY_ARM"
      [] eventCid = 1429 -> "ENTRY"
      [] eventCid \in {1110, 1154, 1159, 1162, 1132, 1134, 1120} -> "ALARM_TRIGGER"
      [] eventCid = 1170 -> "CAMERA_MOTION"
      [] eventCid = 1458 -> "DOORBELL"
      [] eventCid = 9700 -> "DOORLOCK_UNLOCKED"
      [] eventCid = 9701 -> "DOORLOCK_LOCKED"
      [] eventCid = 9703 -> "DOORLOCK_ERROR"
      [] eventCid = 1602 -> "none"
      [] OTHER -> "null"

\* the inner switch alone
eventOfCidOnly(data) == eventOfCid(data.eventCid)

\* switch (data.eventType)
eventOf(data) ==
    IF data.eventType = "alarm" THEN "ALARM_TRIGGER"
    ELSE IF data.eventType = "alarmCancel" THEN "ALARM_OFF"
    ELSE eventOfCid(data.eventCid)

\* (mutant: every code that is delivered arms the lockout)
armsLockoutAlways(data) == data.eventType \notin {"alarm", "alarmCancel"}

\* the cases that call this.handleSensorRefreshLockout()
armsLockout(data) ==
    /\ data.eventType \notin {"alarm", "alarmCancel"}
    /\ data.eventCid \in {1400, 1407, 1406, 3441, 3491, 3401, 3407, 3487, 3481}

\* _socketCallback without its test of data.sid
socketCallbackAnySid(c, cb, data) ==
    LET c1 == IF eventOf(data) = "none" THEN c ELSE deliver(c, cb, eventOf(data))
    IN IF armsLockout(data) THEN handleSensorRefreshLockout(c1) ELSE c1

socketCallback(c, cb, data) ==
    IF data.sid # c.subId THEN c
    ELSE LET c1 == IF eventOf(data) = "none" THEN c ELSE deliver(c, cb, eventOf(data))
         IN IF armsLockout(data) THEN handleSensorRefreshLockout(c1) ELSE c1

\* the listener of ev that the call with callback cb attached
listener(c, cb, ev, arg, data) ==
    CASE ev = "connect" -> deliver(c, cb, "CONNECTED")
      [] ev = "error" ->
           IF arg = "none" THEN c
           ELSE deliver(unsubscribeFromEvents(c), cb, "CONNECTION_LOST")
      [] ev = "reconnect_failed" -> deliver(unsubscribeFromEvents(c), cb, "CONNECTION_LOST")
      [] ev = "disconnect" ->
           IF arg = "io server disconnect"
           THEN deliver(unsubscribeFromEvents(c), cb, "CONNECTION_LOST")
           ELSE deliver(c, cb, "DISCONNECT")
      [] OTHER -> socketCallback(c, cb, data)

\* the logging listeners of the debug mode
debugListener(c, ev, arg) ==
    IF ev = "error" /\ arg = "Not authorized" THEN [c EXCEPT !.isBlocked = TRUE] ELSE c

RECURSIVE runListeners(_, _, _, _, _)
runListeners(c, subs, ev, arg, data) ==
    IF subs = <<>> THEN c
    ELSE runListeners(listener(c, Head(subs), ev, arg, data), Tail(subs), ev, arg, data)

\* socket s emits ev: the listeners attached at that moment run, in the
\* order they were attached
emit(c, s, ev, arg, data) ==
    LET snap == c.sockets[s]
        c0 == [c EXCEPT !.dispatch = [NoDispatch EXCEPT !.s = s, !.ev = ev, !.arg = arg,
                                                        !.data = data]]
        c1 == IF snap.dbg THEN debugListener(c0, ev, arg) ELSE c0
    IN runListeners(c1, snap.subs, ev, arg, data)

(* ------------------------------------------------------------------ *)
(* Actions                                                            *)
(* ------------------------------------------------------------------ *)
\* a caller outside the cache (getEvents, getUserInfo, ...) calls request()
CallRequest(i) ==
    /\ Reusable(State, i)
    /\ Set([State EXCEPT !.reqs[i] = requestEntry(State, "raw", Null)])
    /\ UNCHANGED now

\* what a 200 response body can carry, as far as the client reads it: the
\* number of plans that pass the filters of getSubscriptions(), the number
\* of locks
Payloads(kind) ==
    CASE kind = "subs" -> {0, 1, 2}
      [] kind = "locks" -> {0, 1}
      [] kind = "sensors" -> 0 .. (Pow2(MaxSubs) - 1)
      [] OTHER -> {0}

\* the upstream answers the HTTP attempt of request i
HttpRespond(i, status, n) ==
    /\ Quiescent(State)
    /\ reqs[i].phase \in {"http1", "http2"}
    /\ n \in (IF status = 200 THEN Payloads(reqs[i].kind) ELSE {0})
    /\ Set(respond(State, i, status, n))
    /\ UNCHANGED now

\* authManager.refreshCredentials() of request i settles
RefreshSettles(i, outcome) ==
    /\ Quiescent(State)
    /\ reqs[i].phase = "refresh"
    /\ Set(refreshSettles(State, i, outcome))
    /\ UNCHANGED now

\* a method of the client is called
Available(t) == Free(State, t)
Call(t, op, key, force, arg) ==
    /\ Available(t)
    /\ \A u \in TaskIds : Available(u) => t <= u
    /\ Set(start(State, t, op, key, force, arg, Null))
    /\ UNCHANGED now

\* a continuation runs
Resume(t) ==
    /\ Runnable(State, t)
    /\ Set(resume(State, t))
    /\ UNCHANGED now

\* the setTimeout() of a cache entry fires
EvictFire(tm) ==
    /\ Quiescent(State)
    /\ tm \in evictTimers
    /\ tm.at <= now
    /\ Set([setEntry(State, tm.kind, tm.key, Null) EXCEPT !.evictTimers = @ \ {tm}])
    /\ UNCHANGED now

\* the setTimeout() of the lockout fires
LockoutFire(tm) ==
    /\ Quiescent(State)
    /\ tm \in lockoutTimers
    /\ tm.at <= now
    /\ Set([State EXCEPT !.sensorRefreshLockoutTimeout = Null, !.lockoutTimers = @ \ {tm}])
    /\ UNCHANGED now

\* the accessory is linked to its service
setAccessory ==
    /\ ~service
    /\ Set([State EXCEPT !.service = TRUE])
    /\ UNCHANGED now

\* the bridge sets the target state: operation o begins
SetTargetState(o) ==
    /\ ~Active(ops[o])
    /\ \A p \in OpIds : ~Active(ops[p]) => o <= p
    /\ LET overlapped == \E p \in OpIds \ {o} : Active(ops[p])
           ops0 == [p \in OpIds |->
                      IF p = o THEN [IdleOp EXCEPT !.solo = ~overlapped]
                      ELSE IF Active(ops[p]) THEN [ops[p] EXCEPT !.solo = FALSE]
                      ELSE ops[p]]
       IN Set(setTargetState([State EXCEPT !.ops = ops0], o))
    /\ UNCHANGED now

\* the same, no other operation being in progress
SetTargetStateAlone(o) ==
    /\ \A p \in OpIds : ~Active(ops[p])
    /\ SetTargetState(o)

\* operation o resumes after its setAlarmState() call has ended
Settle(o) ==
    /\ OpRunnable(State, o)
    /\ Set(settle(State, o))
    /\ UNCHANGED now

\* the retry timer of operation o fires
RetryFire(o) ==
    /\ Quiescent(State)
    /\ ops[o].st = "waiting"
    /\ ops[o].retryAt <= now
    /\ ops[o].attempts < MaxAttempts
    /\ Set(setTargetState([State EXCEPT !.ops[o].retryAt = Null], o))
    /\ UNCHANGED now

\* an accessory subscribes to, unsubscribes from the sensor with serial id
SubscribeCallback(id, callback) ==
    /\ Len(sensorSubscriptions) < MaxSubs
    /\ Set(subscribeToSensor(State, id, callback))
    /\ UNCHANGED now

\* the accessory of sensor id subscribes with its callback
SubscribeToSensor(id) == SubscribeCallback(id, id)

UnsubscribeFromSensor(id) ==
    /\ Set(unsubscribeFromSensor(State, id))
    /\ UNCHANGED now

\* the setInterval() fires
PollTick(tm) ==
    /\ Quiescent(State)
    /\ tm \in intervals
    /\ tm.at <= now
    /\ Set(pollTick([State EXCEPT !.intervals =
                        (@ \ {tm}) \cup {[tm EXCEPT !.at = @ + sensorRefreshTime]}]))
    /\ UNCHANGED now

\* the poll tick resumes after its getSensors() call has ended
PollSettle(t) ==
    /\ t \in Ended(State, Poller)
    /\ Set(pollSettle(State, t))
    /\ UNCHANGED now

\* a timer callback that would also clear the counter
suppressFireResets(c) ==
    [c EXCEPT !.errorSupperessionTimeout = Null,
              !.nSuppressedErrors = 0,
              !.dispatch = IF ~c.debug /\ c.nSuppressedErrors > 0
                           THEN logged("warn", c.nSuppressedErrors)
                           ELSE NoDispatch]

\* the callback of the setTimeout() of the error suppression: the summary
\* is logged and the timer is forgotten
suppressFire(c) ==
    [c EXCEPT !.errorSupperessionTimeout = Null,
              !.dispatch = IF ~c.debug /\ c.nSuppressedErrors > 0
                           THEN logged("warn", c.nSuppressedErrors)
                           ELSE NoDispatch]

\* the setTimeout() of the error suppression fires
SuppressFire ==
    /\ Quiescent(State)
    /\ errorSupperessionTimeout # Null
    /\ errorSupperessionTimeout <= now
    /\ Set(suppressFire(State))
    /\ UNCHANGED now

\* an accessory other than the alarm subscribes to the events
SubscribeToEvents(t) ==
    /\ Available(t)
    /\ \A u \in TaskIds : Available(u) => t <= u
    /\ Set(start(State, t, "subscribeToEvents", OtherCallback, FALSE, <<>>, Null))
    /\ UNCHANGED now

\* the constructor of SS3Alarm calls startListening()
StartListening ==
    /\ ~listenStarted
    /\ Set(startListening([State EXCEPT !.listenStarted = TRUE]))
    /\ UNCHANGED now

\* startListening() resumes after its subscribeToEvents() call has ended
ListenSettle(t) ==
    /\ t \in Ended(State, Listener)
    /\ Set(listenSettle(State, t))
    /\ UNCHANGED now

\* a retry timer of startListening() fires
ListenFire(tm) ==
    /\ Quiescent(State)
    /\ tm \in listenTimers
    /\ tm.at <= now
    /\ nSocketConnectFailures < MaxSocketFailures
    /\ Set(startListening([State EXCEPT !.listenTimers = @ \ {tm}]))
    /\ UNCHANGED now

\* the transport of the open socket s emits an event
TransportEvent(s, ev, arg, data) ==
    /\ Quiescent(State)
    /\ sockets[s].st = "open"
    /\ Set(emit(State, s, ev, arg, data))
    /\ UNCHANGED now

\* the server pushes data through socket s
Push(s, data) == TransportEvent(s, "event", "none", data)

\* the server answers the GET of a subscription with body n
SubscriptionRespond(i, n) ==
    /\ Quiescent(State)
    /\ reqs[i].phase \in {"http1", "http2"}
    /\ reqs[i].kind = "sub"
    /\ Set(respond(State, i, 200, n))
    /\ UNCHANGED now

\* the deadlines of the pending timers
Deadlines ==
    {tm.at : tm \in evictTimers} \cup {tm.at : tm \in lockoutTimers}
        \cup {tm.at : tm \in intervals}
        \cup {tm.at : tm \in listenTimers}
        \cup {ops[o].retryAt : o \in {p \in OpIds : ops[p].st = "waiting"}}
        \cup (IF errorSupperessionTimeout # Null THEN {errorSupperessionTimeout} ELSE {})

\* time passes, never past a pending timer
AdvanceTo(t, limit) ==
    /\ Quiescent(State)
    /\ t > now
    /\ t <= limit
    /\ \A d \in Deadlines : t <= d
    /\ now' = t
    /\ dispatch' = NoDispatch
    /\ UNCHANGED <<isBlocked, nextAttempt, nextBlockInterval, reqs, userId, subId,
                   lastSubscriptionRequests, lastSensorRequest, lastLockRequest,
                   evictTimers, tasks, sensorRefreshLockoutEnabled,
                   sensorRefreshLockoutTimeout, lockoutTimers, locksReported,
                   sensorRefreshInterval, intervals, sensorSubscriptions, debug,
                   nSuppressedErrors, errorSupperessionTimeout, service,
                   nRetries, ops, socket, sockets, nSocketConnectFailures,
                   listenTimers, listenStarted>>

\* by one second
TickSecond == AdvanceTo(now + 1000, MaxSeconds * 1000)
\* to the end of the rate-limit wait
WaitOut(limit) == AdvanceTo(nextAttempt, limit)
\* to the next timer
WaitTimer(limit) == \E d \in Deadlines : AdvanceTo(d, limit)

\* the client and the accessory after their constructors, debug being d
Constructed(d) ==
    /\ now = 0
    /\ isBlocked = FALSE
    /\ nextAttempt = 0
    /\ nextBlockInterval = rateLimitInitialInterval
    /\ reqs = [i \in Slots |-> FreeReq]
    /\ userId = Null
    /\ subId = Null
    /\ lastSubscriptionRequests = [k \in SubIds |-> Null]
    /\ lastSensorRequest = Null
    /\ lastLockRequest = Null
    /\ evictTimers = {}
    /\ tasks = [t \in TaskIds |-> IdleTask]
    /\ sensorRefreshLockoutEnabled = FALSE
    /\ sensorRefreshLockoutTimeout = Null
    /\ lockoutTimers = {}
    /\ locksReported = FALSE
    /\ sensorRefreshInterval = Null
    /\ intervals = {}
    /\ sensorSubscriptions = <<>>
    /\ debug = d
    /\ nSuppressedErrors = 0
    /\ errorSupperessionTimeout = Null
    /\ service = FALSE
    /\ nRetries = 0
    /\ ops = [o \in OpIds |-> IdleOp]
    /\ socket = Null
    /\ sockets = [s \in SocketIds |-> NoSocket]
    /\ nSocketConnectFailures = 0
    /\ listenTimers = {}
    /\ listenStarted = FALSE
    /\ dispatch = NoDispatch

Init == Constructed(FALSE)

(* the request executor and the guard under overlapping request() calls *)
NextGuard ==
    \/ \E i \in Slots : CallRequest(i)
    \/ \E i \in Slots, s \in Statuses : HttpRespond(i, s, 0)
    \/ \E i \in Slots, o \in RefreshOutcomes : RefreshSettles(i, o)
    \/ TickSecond
    \/ WaitOut(MaxGuardTime)

SpecGuard == Init /\ [][NextGuard]_vars

(* one caller at a time, waiting out every block: the longest backoff chains *)
NextBackoff ==
    \/ CallRequest(1)
    \/ \E s \in Statuses : HttpRespond(1, s, 0)
    \/ \E o \in RefreshOutcomes : RefreshSettles(1, o)
    \/ WaitOut(MaxTime)

SpecBackoff == Init /\ [][NextBackoff]_vars

(* getSubscription(): plan discovery and the subscription cache *)
SubscriptionStatuses == {200, 403, 409}
NextSubscription ==
    \/ \E t \in TaskIds, k \in {Null, TheSub}, f \in BOOLEAN :
           Call(t, "getSubscription", k, f, <<>>)
    \/ \E t \in TaskIds : Resume(t)
    \/ \E i \in Slots, s \in SubscriptionStatuses, n \in {0, 1, 2} : HttpRespond(i, s, n)
    \/ \E tm \in evictTimers : EvictFire(tm)
    \/ TickSecond
    \/ WaitTimer(MaxCacheTime)

SpecSubscription == Init /\ [][NextSubscription]_vars

(* getSensors() and getLocks(): the sensor and lock caches *)
SensorStatuses == {200, 409}
NextSensors ==
    \/ \E t \in TaskIds, f \in BOOLEAN : Call(t, "getSensors", Null, f, <<>>)
    \/ \E t \in TaskIds, f \in BOOLEAN : Call(t, "getLocks", Null, f, <<>>)
    \/ \E t \in TaskIds : Resume(t)
    \/ \E i \in Slots, s \in SensorStatuses, n \in {0, 1} : HttpRespond(i, s, n)
    \/ \E tm \in evictTimers : EvictFire(tm)
    \/ TickSecond
    \/ WaitTimer(MaxCacheTime)

SpecSensors == Init /\ [][NextSensors]_vars

(* setAlarmState(), setLockState(), getLocks(): validation and lockout *)
AlarmArgs == {<<"O", "F", "F">>, <<"h", "o", "m", "e">>, <<"b", "o", "g", "u", "s">>,
              <<"l", "o", "c", "k">>}
LockArgs == {<<"L", "o", "c", "k">>, <<"u", "n", "l", "o", "c", "k">>, <<"o", "f", "f">>}
SetStatuses == {200, 403}
NextSet ==
    \/ \E t \in TaskIds, a \in AlarmArgs : Call(t, "setAlarmState", Null, FALSE, a)
    \/ \E t \in TaskIds, a \in LockArgs : Call(t, "setLockState", Null, FALSE, a)
    \/ \E t \in TaskIds : Call(t, "getLocks", Null, FALSE, <<>>)
    \/ \E t \in TaskIds : Resume(t)
    \/ \E i \in Slots, s \in SetStatuses, n \in {0, 1} : HttpRespond(i, s, n)
    \/ \E tm \in evictTimers : EvictFire(tm)
    \/ WaitTimer(MaxCacheTime)

SpecSet == Init /\ [][NextSet]_vars

(* the pushes of the event socket *)
ForeignSub == 2
EventCids ==
    {1400, 1407, 1406, 1409, 9441, 3441, 3491, 9401, 9407, 3401, 3407, 3487, 3481, 1429,
     1110, 1154, 1159, 1162, 1132, 1134, 1120, 1170, 1458, 9700, 9701, 9703, 1602, 1000}
EventTypes == {"alarm", "alarmCancel", "activity"}
\* every code in an activity push for the own subscription; every
\* combination of sid and eventType with some of the codes
EventData ==
    [sid : {TheSub}, eventType : {"activity"}, eventCid : EventCids]
        \cup [sid : {TheSub, ForeignSub}, eventType : EventTypes, eventCid : {1407, 1602, 1000}]
NextEvents ==
    \/ StartListening
    \/ \E t \in TaskIds : Call(t, "getLocks", Null, FALSE, <<>>)
    \/ \E t \in TaskIds : Resume(t)
    \/ \E t \in TaskIds : ListenSettle(t)
    \/ \E i \in Slots, n \in {0, 1} : HttpRespond(i, 200, n)
    \/ \E s \in SocketIds, data \in EventData : Push(s, data)
    \/ TickSecond

SpecEvents == Init /\ [][NextEvents]_vars

(* the pushes and setAlarmState(): what arms the lockout *)
ArmStatuses == {200, 409}
\* every code in an activity push for the own subscription; code 1407 with
\* the other event types and for another subscription
ArmData ==
    [sid : {TheSub}, eventType : {"activity"}, eventCid : EventCids]
        \cup [sid : {TheSub}, eventType : {"alarm", "alarmCancel"}, eventCid : {1407}]
        \cup [sid : {ForeignSub}, eventType : {"activity"}, eventCid : {1407}]
NextArm ==
    \/ StartListening
    \/ \E t \in TaskIds : Call(t, "getLocks", Null, FALSE, <<>>)
    \/ \E t \in TaskIds : Call(t, "setAlarmState", Null, FALSE, TargetState)
    \/ \E t \in TaskIds : Resume(t)
    \/ \E t \in TaskIds : ListenSettle(t)
    \/ \E i \in Slots, s \in ArmStatuses, n \in {0, 1} : HttpRespond(i, s, n)
    \/ \E s \in SocketIds, data \in ArmData : Push(s, data)
    \/ \E tm \in evictTimers : EvictFire(tm)
    \/ WaitTimer(MaxCacheTime)

SpecArm == Init /\ [][NextArm]_vars

(* SS3Alarm.startListening(): the retries *)
ListenStatuses == {200, 403}
LifecycleEvents ==
    {<<"connect", "none">>, <<"disconnect", "io server disconnect">>,
     <<"disconnect", "transport close">>, <<"error", "other">>}
NextListen ==
    \/ StartListening
    \/ \E t \in TaskIds : Resume(t)
    \/ \E t \in TaskIds : ListenSettle(t)
    \/ \E tm \in listenTimers : ListenFire(tm)
    \/ \E i \in Slots, s \in ListenStatuses : HttpRespond(i, s, 0)
    \/ \E s \in SocketIds, ev \in LifecycleEvents : TransportEvent(s, ev[1], ev[2], NoData)
    \/ WaitTimer(MaxListenTime)

SpecListen == Init /\ [][NextListen]_vars

(* subscribeToEvents() called by the alarm and by another subscriber *)
SocketEvents ==
    LifecycleEvents \cup {<<"reconnect_failed", "none">>, <<"error", "none">>, <<"event", "none">>}
SocketData == [sid |-> Null, eventType |-> "activity", eventCid |-> 1409]
NextSockets ==
    \/ StartListening
    \/ \E t \in TaskIds : SubscribeToEvents(t)
    \/ \E t \in TaskIds : Resume(t)
    \/ \E t \in TaskIds : ListenSettle(t)
    \/ \E tm \in listenTimers : ListenFire(tm)
    \/ \E i \in Slots : HttpRespond(i, 200, 0)
    \/ \E s \in SocketIds, ev \in SocketEvents : TransportEvent(s, ev[1], ev[2], SocketData)
    \/ WaitTimer(MaxSocketTime)

SpecSockets == Init /\ [][NextSockets]_vars

(* subscribeToEvents() with the guard engaged by other requests *)
SubscribeStatuses == {200, 403, 409}
NextSubscribe ==
    \/ \E t \in TaskIds : SubscribeToEvents(t)
    \/ \E i \in Slots : CallRequest(i)
    \/ \E t \in TaskIds : Resume(t)
    \/ \E i \in Slots, s \in SubscribeStatuses : HttpRespond(i, s, 0)
    \/ TickSecond
    \/ WaitOut(MaxGuardTime)

SpecSubscribe == Init /\ [][NextSubscribe]_vars

(* subscribeToEvents(): the /authCheck request of getUserId() *)
AuthStatuses == {200, 403, 409}
AuthEvents == LifecycleEvents \cup {<<"reconnect_failed", "none">>, <<"error", "none">>}
NextAuth ==
    \/ \E t \in TaskIds : SubscribeToEvents(t)
    \/ \E t \in TaskIds : Resume(t)
    \/ \E i \in Slots, s \in AuthStatuses : HttpRespond(i, s, 0)
    \/ \E s \in SocketIds, ev \in AuthEvents : TransportEvent(s, ev[1], ev[2], NoData)
    \/ WaitOut(MaxGuardTime)

SpecAuth == Init /\ [][NextAuth]_vars

(* SS3Alarm.startListening(): the errors that are not rate-limit errors *)
RelistenStatuses == {200, 403, 409}
NextRelisten ==
    \/ StartListening
    \/ \E t \in TaskIds : Resume(t)
    \/ \E t \in TaskIds : ListenSettle(t)
    \/ \E tm \in listenTimers : ListenFire(tm)
    \/ \E i \in Slots, s \in RelistenStatuses : HttpRespond(i, s, 0)
    \/ \E s \in SocketIds, ev \in LifecycleEvents : TransportEvent(s, ev[1], ev[2], NoData)
    \/ WaitTimer(MaxListenTime)

SpecRelisten == Init /\ [][NextRelisten]_vars

(* getAlarmState() *)
AlarmStateStatuses == {200, 409}
NextAlarmState ==
    \/ \E t \in TaskIds, f \in BOOLEAN : Call(t, "getAlarmState", Null, f, <<>>)
    \/ \E t \in TaskIds : Resume(t)
    \/ \E i \in Slots, s \in AlarmStateStatuses, n \in {0, 1} : HttpRespond(i, s, n)
    \/ \E i \in Slots, n \in 0 .. (Len(SubBodies) - 1) : SubscriptionRespond(i, n)
    \/ \E tm \in evictTimers : EvictFire(tm)
    \/ WaitTimer(MaxCacheTime)

SpecAlarmState == Init /\ [][NextAlarmState]_vars

(* getLocks() and setAlarmState(): the sensor refresh lockout *)
LockoutStatuses == {200, 409}
NextLockout ==
    \/ \E t \in TaskIds : Call(t, "setAlarmState", Null, FALSE, TargetState)
    \/ \E t \in TaskIds : Call(t, "getLocks", Null, FALSE, <<>>)
    \/ \E t \in TaskIds : Resume(t)
    \/ \E i \in Slots, s \in LockoutStatuses, n \in {0, 1} : HttpRespond(i, s, n)
    \/ \E tm \in evictTimers : EvictFire(tm)
    \/ \E tm \in lockoutTimers : LockoutFire(tm)
    \/ TickSecond
    \/ WaitTimer(MaxLockoutTime)

SpecLockout == Init /\ [][NextLockout]_vars

(* SS3Alarm.setTargetState(): the retries *)
RetryStatuses == {200, 409, 504}
NextRetry ==
    \/ setAccessory
    \/ \E o \in OpIds : SetTargetStateAlone(o)
    \/ \E o \in OpIds : Settle(o)
    \/ \E o \in OpIds : RetryFire(o)
    \/ \E t \in TaskIds : Resume(t)
    \/ \E i \in Slots, s \in RetryStatuses, n \in {0, 1} : HttpRespond(i, s, n)
    \/ \E tm \in evictTimers : EvictFire(tm)
    \/ WaitTimer(MaxRetryTime)

SpecRetry == Init /\ [][NextRetry]_vars

(* the same with operations that overlap *)
NextOverlap ==
    \/ setAccessory
    \/ \E o \in OpIds : SetTargetState(o)
    \/ \E o \in OpIds : Settle(o)
    \/ \E o \in OpIds : RetryFire(o)
    \/ \E t \in TaskIds : Resume(t)
    \/ \E i \in Slots, s \in RetryStatuses, n \in {0, 1} : HttpRespond(i, s, n)
    \/ \E tm \in evictTimers : EvictFire(tm)
    \/ WaitTimer(MaxRetryTime)

SpecOverlap == Init /\ [][NextOverlap]_vars

(* subscribeToSensor(), unsubscribeFromSensor() and the poll timer *)
PollStatuses == {200, 409}
InitPoll == \E d \in BOOLEAN : Constructed(d)
NextPoll ==
    \/ \E id \in SensorIds : SubscribeToSensor(id)
    \/ \E id \in SensorIds : UnsubscribeFromSensor(id)
    \/ \E tm \in intervals : PollTick(tm)
    \/ \E t \in TaskIds : PollSettle(t)
    \/ \E t \in TaskIds : Resume(t)
    \/ \E i \in Slots, s \in PollStatuses, n \in {0, 1} : HttpRespond(i, s, n)
    \/ \E tm \in evictTimers : EvictFire(tm)
    \/ TickSecond
    \/ WaitTimer(MaxPollTime)

SpecPoll == InitPoll /\ [][NextPoll]_vars

\* the socket reporting errors, 'Not authorized' among them, to a client in
\* debug and in quiet mode
UnauthorizedStatuses == {200, 403}
UnauthorizedEvents ==
    {<<"connect", "none">>, <<"error", "Not authorized">>, <<"error", "other">>,
     <<"disconnect", "transport close">>}
NextUnauthorized ==
    \/ \E t \in TaskIds : SubscribeToEvents(t)
    \/ \E t \in TaskIds : Resume(t)
    \/ \E i \in Slots, s \in UnauthorizedStatuses : HttpRespond(i, s, 0)
    \/ \E s \in SocketIds, ev \in UnauthorizedEvents : TransportEvent(s, ev[1], ev[2], NoData)
    \/ WaitOut(MaxGuardTime)

SpecUnauthorized == InitPoll /\ [][NextUnauthorized]_vars

\* getSubscription() with and without a subscription id and
\* subscribeToEvents(), from a client that knows neither of its ids
LearnStatuses == {200, 409}
NextLearn ==
    \/ \E t \in TaskIds, k \in {Null, OtherSub}, f \in BOOLEAN :
           Call(t, "getSubscription", k, f, <<>>)
    \/ \E t \in TaskIds : SubscribeToEvents(t)
    \/ \E t \in TaskIds : Resume(t)
    \/ \E i \in Slots, s \in LearnStatuses, n \in {0, 1, 2} : HttpRespond(i, s, n)
    \/ \E tm \in evictTimers : EvictFire(tm)
    \/ WaitTimer(MaxCacheTime)

SpecLearn == Init /\ [][NextLearn]_vars

(* the poll tick hands the sensors to the subscribers *)
NextFanOut ==
    \/ \E id \in SensorIds, cb \in SensorCallbacks : SubscribeCallback(id, cb)
    \/ \E id \in SensorIds : UnsubscribeFromSensor(id)
    \/ \E tm \in intervals : PollTick(tm)
    \/ \E t \in TaskIds : PollSettle(t)
    \/ \E t \in TaskIds : Resume(t)
    \/ \E i \in Slots, s \in PollStatuses, n \in 0 .. (Pow2(MaxSubs) - 1) : HttpRespond(i, s, n)
    \/ \E tm \in evictTimers : EvictFire(tm)
    \/ WaitTimer(MaxPollTime)

SpecFanOut == Init /\ [][NextFanOut]_vars

(* the poll timer while the lockout is armed and released *)
TickStatuses == {200, 409}
\* the client once the user id and the subscription are known and the caches
\* have expired, the last getLocks() call having reported a lock or not; the
\* clock is counted from there
KnownIn(lock, d) ==
    /\ now = 0
    /\ isBlocked = FALSE
    /\ nextAttempt = 0
    /\ nextBlockInterval = rateLimitInitialInterval
    /\ reqs = [i \in Slots |-> FreeReq]
    /\ userId = TheUser
    /\ subId = TheSub
    /\ lastSubscriptionRequests = [k \in SubIds |-> Null]
    /\ lastSensorRequest = Null
    /\ lastLockRequest = Null
    /\ evictTimers = {}
    /\ tasks = [t \in TaskIds |-> IdleTask]
    /\ sensorRefreshLockoutEnabled = lock
    /\ sensorRefreshLockoutTimeout = Null
    /\ lockoutTimers = {}
    /\ locksReported = lock
    /\ sensorRefreshInterval = Null
    /\ intervals = {}
    /\ sensorSubscriptions = <<>>
    /\ debug = d
    /\ nSuppressedErrors = 0
    /\ errorSupperessionTimeout = Null
    /\ service = FALSE
    /\ nRetries = 0
    /\ ops = [o \in OpIds |-> IdleOp]
    /\ socket = Null
    /\ sockets = [s \in SocketIds |-> NoSocket]
    /\ nSocketConnectFailures = 0
    /\ listenTimers = {}
    /\ listenStarted = FALSE
    /\ dispatch = NoDispatch

\* in quiet mode
Known(lock) == KnownIn(lock, FALSE)

InitTick == Known(TRUE)

\* the poll with failing answers over one window of the error suppression,
\* in debug and in quiet mode, from a client that knows its subscription
SuppressStatuses == {200, 409, NoResponse}
NextSuppress ==
    \/ SubscribeToSensor(1)
    \/ \E tm \in intervals : PollTick(tm)
    \/ \E t \in TaskIds : PollSettle(t)
    \/ \E t \in TaskIds : Resume(t)
    \/ \E i \in Slots, s \in SuppressStatuses, n \in {0, 1} : HttpRespond(i, s, n)
    \/ \E tm \in evictTimers : EvictFire(tm)
    \/ SuppressFire
    \/ WaitTimer(MaxSuppressTime)

InitSuppress == \E d \in BOOLEAN : KnownIn(FALSE, d)
SpecSuppress == InitSuppress /\ [][NextSuppress]_vars
NextTick ==
    \/ SubscribeToSensor(1)
    \/ UnsubscribeFromSensor(1)
    \/ \E tm \in intervals : PollTick(tm)
    \/ \E t \in TaskIds : PollSettle(t)
    \/ \E t \in TaskIds : Call(t, "setAlarmState", Null, FALSE, TargetState)
    \/ \E t \in TaskIds : Resume(t)
    \/ \E i \in Slots, s \in TickStatuses, n \in {0, 1} : HttpRespond(i, s, n)
    \/ \E tm \in evictTimers : EvictFire(tm)
    \/ \E tm \in lockoutTimers : LockoutFire(tm)
    \/ WaitTimer(MaxPollTime)

SpecTick == InitTick /\ [][NextTick]_vars

(* SS3Alarm.setTargetState(): every operation comes to its callback *)
LiveStatuses == {200, 409, 500}
\* the bridge sets the target state once per operation record
SetTargetStateOnce(o) ==
    /\ ops[o].st = "idle"
    /\ SetTargetState(o)

LiveRespond(i) == \E s \in LiveStatuses : HttpRespond(i, s, 0)

NextSetLive ==
    \/ setAccessory
    \/ \E o \in OpIds : SetTargetStateOnce(o)
    \/ \E o \in OpIds : Settle(o)
    \/ \E o \in OpIds : RetryFire(o)
    \/ \E t \in TaskIds : Resume(t)
    \/ \E i \in Slots : LiveRespond(i)
    \/ WaitTimer(MaxLiveTime)

\* the continuations run, the timers fire, the clock advances, and every
\* request is answered
FairSetLive ==
    /\ \A o \in OpIds : WF_vars(Settle(o)) /\ WF_vars(RetryFire(o))
    /\ \A t \in TaskIds : WF_vars(Resume(t))
    /\ \A i \in Slots : WF_vars(LiveRespond(i))
    /\ WF_vars(WaitTimer(MaxLiveTime))

InitSetLive == Known(FALSE)
SpecSetLive == InitSetLive /\ [][NextSetLive]_vars /\ FairSetLive

(* ------------------------------------------------------------------ *)
(* Claims about the guard and the request executor                    *)
(* ------------------------------------------------------------------ *)
\* an external request() call enters at slot i in this step
Started(i) == ~Unsettled(reqs[i]) /\ reqs'[i] # reqs[i]

\* C3: after a 403, until nextAttempt every request() call that starts is
\* rejected with RateLimitError without an HTTP attempt, whatever else was
\* in flight when the 403 arrived.
C3_FailFastUntilNextAttempt ==
    [][\A i \in Slots :
         (Started(i) /\ now < nextAttempt)
             => (reqs'[i].phase = "rle" /\ reqs'[i].attempts = 0)]_vars

\* C4: nextBlockInterval never exceeds the 2-hour ceiling.
C4_IntervalWithinCeiling == nextBlockInterval <= rateLimitMaxInterval

\* C5: a request() call makes its HTTP attempt exactly when
\* isBlocked /\ now < nextAttempt is false at its entry, and otherwise is
\* rejected with RateLimitError without an attempt; the same holds of the
\* call retried after a token refresh.
C5_IoIffNotBlocked ==
    [][\A i \in Slots :
         /\ Started(i) =>
               /\ (reqs'[i].phase = "http1" /\ reqs'[i].attempts = 1)
                     <=> ~(isBlocked /\ now < nextAttempt)
               /\ (reqs'[i].phase = "rle" /\ reqs'[i].attempts = 0)
                     <=> (isBlocked /\ now < nextAttempt)
         /\ (reqs[i].phase = "refresh" /\ reqs'[i].phase = "http2")
               => ~(isBlocked /\ now < nextAttempt)]_vars

\* a call rejected while blocked, and a later one sent at nextAttempt with
\* isBlocked still set
C5_Witness ==
    \E i, j \in Slots :
        /\ isBlocked
        /\ reqs[i].phase = "rle" /\ reqs[i].attempts = 0
        /\ reqs[j].phase = "http1" /\ reqs[j].blk /\ now >= nextAttempt

\* C6: a request() call makes at most two HTTP attempts and one
\* refreshCredentials() call; the second attempt exists only after the one
\* refresh, and a 401 reaches the caller only from that second attempt.
C6_AtMostOneRetry ==
    \A i \in Slots :
        /\ reqs[i].attempts <= 2
        /\ reqs[i].refreshes <= 1
        /\ reqs[i].phase = "refresh" => (reqs[i].attempts = 1 /\ reqs[i].refreshes = 1)
        /\ reqs[i].phase = "http2" => (reqs[i].attempts = 2 /\ reqs[i].refreshes = 1)
        /\ reqs[i].attempts = 2 => reqs[i].refreshes = 1
        /\ (reqs[i].phase = "err" /\ reqs[i].code = 401)
               => (reqs[i].attempts = 2 /\ reqs[i].refreshes = 1)

\* a 401 on the retried attempt, raised after two attempts and one refresh
C6_Witness ==
    \E i \in Slots :
        reqs[i].phase = "err" /\ reqs[i].code = 401 /\ reqs[i].attempts = 2

\* request i is rejected in this step because of an HTTP 403: on its first
\* attempt, on its retried attempt, or from refreshCredentials()
Forbidden(i) ==
    /\ Unsettled(reqs[i])
    /\ reqs'[i].phase = "rle" /\ reqs'[i].code = 403

\* the slot of a settled request changes only by being given away
Reused(i) ==
    \/ reqs'[i] = FreeReq
    \/ reqs'[i].attempts <= 1 /\ reqs'[i].refreshes = 0 /\ reqs'[i].phase \in {"http1", "rle"}

\* the guard changed as by one call of _setRateLimitHandler() that doubles
\* the interval
EngagedDoubling ==
    /\ isBlocked'
    /\ nextAttempt' = now + nextBlockInterval
    /\ nextBlockInterval' = 2 * nextBlockInterval

\* the guard changed as by one call of _setRateLimitHandler()
Engaged ==
    /\ isBlocked'
    /\ nextAttempt' = now + nextBlockInterval
    /\ nextBlockInterval' = IF nextBlockInterval < rateLimitMaxInterval
                            THEN 2 * nextBlockInterval
                            ELSE nextBlockInterval

\* C18 (as claimed): a 403 on the first attempt, on the retried attempt or
\* from the credential refresh engages the guard exactly once (isBlocked
\* true, nextAttempt = now + interval, interval doubled once) and raises
\* RateLimitError; any other refresh failure is raised unchanged and leaves
\* the guard as it was.
C18_ForbiddenEngagesAndDoubles ==
    [][\A i \in Slots :
          /\ Forbidden(i) => EngagedDoubling
          /\ (reqs[i].phase = "refresh" /\ reqs'[i].phase = "err") =>
                /\ reqs'[i].code = RefreshFailed
                /\ UNCHANGED <<isBlocked, nextAttempt, nextBlockInterval>>
          /\ (Settled(reqs[i]) /\ reqs'[i] # reqs[i]) => Reused(i)]_vars

\* C18 (amended): the same, the interval being doubled once unless it has
\* reached the ceiling, where it stays; the guard is engaged by nothing but
\* such a 403, and the call is settled by it.
C18_ForbiddenEngagesOnce ==
    [][/\ \A i \in Slots :
            /\ Forbidden(i) => Engaged
            /\ (reqs[i].phase = "refresh" /\ reqs'[i].phase = "err") =>
                  /\ reqs'[i].code = RefreshFailed
                  /\ UNCHANGED <<isBlocked, nextAttempt, nextBlockInterval>>
            /\ (Settled(reqs[i]) /\ reqs'[i] # reqs[i]) => Reused(i)
       /\ (nextAttempt' # nextAttempt \/ nextBlockInterval' > nextBlockInterval) =>
              \E i \in Slots : Forbidden(i)]_vars

\* a retried attempt was answered 403 and engaged the guard
C18_Witness ==
    /\ isBlocked
    /\ \E i \in Slots :
          /\ reqs[i].phase = "rle" /\ reqs[i].code = 403 /\ reqs[i].attempts = 2
          /\ nextAttempt = now + rateLimitInitialInterval

\* C19: a request that fails without an HTTP response is raised as
\* RateLimitError at once: no second attempt, no credential refresh, and
\* isBlocked, nextAttempt and nextBlockInterval stay as they are.
C19_NoResponseIsRateLimitError ==
    [][\A i \in Slots :
          /\ (reqs[i].phase \in {"http1", "http2"} /\ reqs'[i].phase = "rle"
                  /\ reqs'[i].code = NoResponse) =>
                /\ reqs'[i].attempts = reqs[i].attempts
                /\ reqs'[i].refreshes = reqs[i].refreshes
                /\ UNCHANGED <<isBlocked, nextAttempt, nextBlockInterval>>
          /\ (reqs[i].phase \in {"http1", "http2"} /\ reqs'[i] # reqs[i]
                  /\ reqs'[i].phase \in {"http2", "refresh"}) =>
                /\ reqs[i].phase = "http1" /\ reqs'[i].phase = "refresh"
                /\ isBlocked' = isBlocked /\ nextAttempt' = nextAttempt
          /\ (Settled(reqs[i]) /\ reqs'[i] # reqs[i]) => Reused(i)]_vars

\* a first attempt failed without response while the guard was engaged and
\* its deadline had passed: the guard is as it was
C19_Witness ==
    \E i \in Slots :
        /\ reqs[i].phase = "rle" /\ reqs[i].code = NoResponse /\ reqs[i].attempts = 1
        /\ reqs[i].refreshes = 0
        /\ isBlocked /\ now >= nextAttempt
        /\ nextBlockInterval > rateLimitInitialInterval

(* ------------------------------------------------------------------ *)
(* Claims about the caches                                            *)
(* ------------------------------------------------------------------ *)
\* call t reaches the await of its cached subscription request in this step
JoinsSub(t) ==
    /\ tasks[t].pc # "main"
    /\ tasks'[t].pc = "main"
    /\ tasks'[t].op = "getSubscription"

\* C1 (as claimed): getSubscription(K) calls that overlap in time wait for
\* one and the same upstream request.
C1_OverlappingCallersShareRequest ==
    \A t, u \in TaskIds :
        (/\ tasks[t].op = "getSubscription" /\ tasks[t].pc = "main"
         /\ tasks[u].op = "getSubscription" /\ tasks[u].pc = "main"
         /\ tasks[t].key = tasks[u].key)
            => tasks[t].wait = tasks[u].wait

\* C1 (amended): a getSubscription(K) call with forceRefresh false that finds
\* a live entry for K issues no request and awaits the entry's request; a
\* call with forceRefresh true, or one that finds no entry, issues one new
\* request for K and stores it as the entry; every caller gets the outcome
\* of the request it awaits.
C1_JoinLiveEntry ==
    [][\A t \in TaskIds :
         /\ JoinsSub(t) =>
               LET k == tasks'[t].key
                   e == lastSubscriptionRequests[k]
                   w == tasks'[t].wait
               IN IF ~tasks'[t].force /\ e # Null
                  THEN /\ w = e
                       /\ ~tasks'[t].issued
                       /\ lastSubscriptionRequests'[k] = e
                       /\ \A i \in Slots : reqs'[i] # reqs[i] => reqs'[i] = FreeReq
                  ELSE /\ tasks'[t].issued
                       /\ lastSubscriptionRequests'[k] = w
                       /\ reqs'[w].kind = "sub" /\ reqs'[w].key = k
                       /\ reqs'[w].phase \in {"http1", "rle"}
                       /\ ~Unsettled(reqs[w])
                       /\ \A i \in Slots \ {w} : reqs'[i] # reqs[i] => reqs'[i] = FreeReq
         /\ (tasks[t].op = "getSubscription" /\ tasks[t].pc = "main" /\ tasks'[t].pc = "done")
               => tasks'[t].res = reqs[tasks[t].wait].phase]_vars

\* a caller has joined the request another caller issued
C1_Witness ==
    \E t, u \in TaskIds :
        /\ tasks[t].op = "getSubscription" /\ tasks[t].pc = "main" /\ tasks[t].issued
        /\ tasks[u].op = "getSubscription" /\ tasks[u].pc = "main" /\ ~tasks[u].issued
        /\ ~tasks[u].force
        /\ tasks[t].wait = tasks[u].wait

\* C2: at most one unsettled upstream request per cache key.
C2_OneUnsettledRequestPerKey ==
    \A i, j \in Slots :
        (/\ i # j
         /\ Unsettled(reqs[i]) /\ Unsettled(reqs[j])
         /\ Cached(reqs[i].kind))
            => ~(reqs[i].kind = reqs[j].kind /\ reqs[i].key = reqs[j].key)

(* ------------------------------------------------------------------ *)
(* Claims about setAlarmState(), setLockState() and the lockout       *)
(* ------------------------------------------------------------------ *)
\* setAlarmState() or setLockState() is called in this step, as call t
SetCalled(t) ==
    /\ Available(t)
    /\ tasks'[t] # tasks[t]
    /\ tasks'[t].op \in {"setAlarmState", "setLockState"}

\* the state is outside {off, home, away}, outside {lock, unlock}, whatever
\* the case it is written in
OutsideTargetStates(op, arg) ==
    IF op = "setAlarmState"
    THEN toLowerCase(arg) \notin {<<"o", "f", "f">>, <<"h", "o", "m", "e">>, <<"a", "w", "a", "y">>}
    ELSE toLowerCase(arg) \notin {<<"l", "o", "c", "k">>, <<"u", "n", "l", "o", "c", "k">>}

\* C7: setAlarmState() with a state outside {off, home, away} and
\* setLockState() with a state outside {lock, unlock}, compared without
\* regard to case, fail with 'Invalid target state' before any request is
\* issued and leave the guard, the caches, the subscription id and the
\* lockout as they were; a call with a state inside the set is not rejected
\* as invalid.
C7_InvalidStateFailsFirst ==
    [][\A t \in TaskIds :
         SetCalled(t) =>
            IF OutsideTargetStates(tasks'[t].op, tasks'[t].arg)
            THEN /\ tasks'[t].pc = "done"
                 /\ tasks'[t].res = "invalid"
                 /\ UNCHANGED <<isBlocked, nextAttempt, nextBlockInterval, reqs, userId,
                                subId, lastSubscriptionRequests, lastSensorRequest,
                                lastLockRequest, evictTimers, sensorRefreshLockoutEnabled,
                                sensorRefreshLockoutTimeout, lockoutTimers>>
            ELSE /\ tasks'[t].pc \in Awaiting
                 /\ tasks'[t].res # "invalid"]_vars

\* an invalid setAlarmState() call made while the guard is engaged, the lock
\* cache holds an entry and the lockout is pending
C7_Witness ==
    \E t \in TaskIds :
        /\ tasks[t].pc = "done" /\ tasks[t].res = "invalid"
        /\ tasks[t].op = "setAlarmState"
        /\ isBlocked /\ subId # Null
        /\ lastLockRequest # Null
        /\ sensorRefreshLockoutTimeout # Null

\* the setAlarmState() call of call t succeeds in this step
Arms(t) ==
    /\ tasks[t].op = "setAlarmState" /\ tasks[t].pc = "main"
    /\ tasks'[t].pc = "done" /\ tasks'[t].res = "ok"

\* after the step one timer is pending, due in 15 seconds, and it is the
\* one the handle names
Rearmed ==
    \E tm \in lockoutTimers' :
        /\ lockoutTimers' = {tm}
        /\ tm.at = now + sensorRefreshLockoutDuration
        /\ sensorRefreshLockoutTimeout' = tm.id

\* C9 (as claimed): handleSensorRefreshLockout() changes nothing while no
\* getLocks() result has reported a lock; once one has, it cancels the
\* pending timer and starts a new 15-second one.
C9_ArmsOnceSomeLockReported ==
    [][\A t \in TaskIds :
         Arms(t) => IF ~locksReported
                    THEN UNCHANGED <<sensorRefreshLockoutTimeout, lockoutTimers>>
                    ELSE Rearmed]_vars

\* C9 (amended): the flag handleSensorRefreshLockout() tests is what the most
\* recent getLocks() result said; while it is false the call changes
\* nothing, while it is true the call cancels the pending timer and starts a
\* new 15-second one; at most one timer is pending, it is the one the handle
\* names, and the lockout is cleared only by that timer, 15 seconds after
\* the last arm.
C9_ArmsWhileLastGetLocksReportedLock ==
    [][/\ \A t \in TaskIds :
            /\ Arms(t) => IF ~sensorRefreshLockoutEnabled
                          THEN UNCHANGED <<sensorRefreshLockoutTimeout, lockoutTimers>>
                          ELSE Rearmed
            /\ (tasks[t].op = "getLocks" /\ tasks[t].pc = "main" /\ tasks'[t].res = "ok")
                   => sensorRefreshLockoutEnabled' = (reqs[tasks[t].wait].n > 0)
       /\ sensorRefreshLockoutEnabled' # sensorRefreshLockoutEnabled
              => \E t \in TaskIds : tasks[t].op = "getLocks" /\ tasks'[t].res = "ok"
       /\ Cardinality(lockoutTimers) <= 1
       /\ \A tm \in lockoutTimers : tm.id = sensorRefreshLockoutTimeout
       /\ (sensorRefreshLockoutTimeout # Null) => lockoutTimers # {}
       /\ (sensorRefreshLockoutTimeout # Null /\ sensorRefreshLockoutTimeout' = Null)
              => /\ \E tm \in lockoutTimers : tm.at = now
                 /\ lockoutTimers' = {}
       /\ <<sensorRefreshLockoutTimeout, lockoutTimers>>' # <<sensorRefreshLockoutTimeout, lockoutTimers>>
              => \/ \E t \in TaskIds : Arms(t)
                 \/ sensorRefreshLockoutTimeout' = Null]_vars

\* the lockout armed a second time inside the window of the first: one
\* timer is pending, the second one
C9_Witness ==
    \E tm \in lockoutTimers :
        /\ lockoutTimers = {tm}
        /\ tm.id = 2
        /\ sensorRefreshLockoutTimeout = 2
        /\ tm.at > sensorRefreshLockoutDuration

(* ------------------------------------------------------------------ *)
(* Claims about the pushes of the event socket                        *)
(* ------------------------------------------------------------------ *)
\* the step is a push through an open socket
IsPush == dispatch'.ev = "event"

\* every listener of the pushing socket called its callback once, with event
Delivered(event) ==
    LET subs == sockets[dispatch'.s].subs
    IN dispatch'.to = [i \in 1 .. Len(subs) |-> <<subs[i], event>>]

\* handleSensorRefreshLockout() ran in the step
LockoutHandled ==
    IF sensorRefreshLockoutEnabled THEN Rearmed
    ELSE UNCHANGED <<sensorRefreshLockoutTimeout, lockoutTimers>>

\* C11 (as claimed): for every push for the client's own subscription id,
\* whatever its eventType, code 1407 calls the callback with ALARM_DISARM and
\* arms the lockout, and code 1602 calls no callback and leaves the lockout
\* as it was.
C11_CodeDecidesWhateverEventType ==
    [][(IsPush /\ dispatch'.data.sid = subId) =>
          /\ dispatch'.data.eventCid = 1407 => Delivered("ALARM_DISARM") /\ LockoutHandled
          /\ dispatch'.data.eventCid = 1602 =>
                 /\ dispatch'.to = <<>>
                 /\ UNCHANGED <<sensorRefreshLockoutTimeout, lockoutTimers>>]_vars

\* C11 (amended): for every push for the client's own subscription id whose
\* eventType is neither 'alarm' nor 'alarmCancel', code 1407 calls the
\* callback with ALARM_DISARM and runs the lockout handler, and code 1602
\* calls no callback and leaves the lockout as it was; a push of eventType
\* 'alarm' calls the callback with ALARM_TRIGGER and one of eventType
\* 'alarmCancel' with ALARM_OFF, whatever the code, and neither touches the
\* lockout.
C11_CodeDecidesUnlessAlarmType ==
    [][(IsPush /\ dispatch'.data.sid = subId) =>
          /\ dispatch'.data.eventType \notin {"alarm", "alarmCancel"} =>
                /\ dispatch'.data.eventCid = 1407 =>
                       Delivered("ALARM_DISARM") /\ LockoutHandled
                /\ dispatch'.data.eventCid = 1602 =>
                       /\ dispatch'.to = <<>>
                       /\ UNCHANGED <<sensorRefreshLockoutTimeout, lockoutTimers>>
          /\ dispatch'.data.eventType = "alarm" =>
                /\ Delivered("ALARM_TRIGGER")
                /\ UNCHANGED <<sensorRefreshLockoutTimeout, lockoutTimers>>
          /\ dispatch'.data.eventType = "alarmCancel" =>
                /\ Delivered("ALARM_OFF")
                /\ UNCHANGED <<sensorRefreshLockoutTimeout, lockoutTimers>>]_vars

\* a push of code 1407 for the own subscription was delivered as
\* ALARM_DISARM and armed the lockout
C11_Witness ==
    /\ dispatch.ev = "event"
    /\ subId # Null /\ dispatch.data.sid = subId
    /\ dispatch.data.eventCid = 1407
    /\ dispatch.data.eventType = "activity"
    /\ \E i \in 1 .. Len(dispatch.to) : dispatch.to[i] = <<AlarmCallback, "ALARM_DISARM">>
    /\ \E tm \in lockoutTimers :
          tm.id = sensorRefreshLockoutTimeout /\ tm.at = now + sensorRefreshLockoutDuration

\* C13: a push whose sid is not the client's subscription id calls no event
\* callback and neither arms nor extends the lockout, whatever its eventType
\* and code.
C13_ForeignPushDropped ==
    [][(IsPush /\ dispatch'.data.sid # subId) =>
          /\ dispatch'.to = <<>>
          /\ UNCHANGED <<sensorRefreshLockoutTimeout, lockoutTimers,
                         sensorRefreshLockoutEnabled>>]_vars

\* a push of code 1407 for a foreign subscription arrived through a socket
\* with a listener while the lockout was enabled and armed
C13_Witness ==
    /\ dispatch.ev = "event"
    /\ subId = TheSub /\ dispatch.data.sid = ForeignSub
    /\ dispatch.data.eventCid = 1407
    /\ dispatch.data.eventType = "activity"
    /\ sockets[dispatch.s].subs # <<>>
    /\ sensorRefreshLockoutEnabled
    /\ \E tm \in lockoutTimers : tm.at < now + sensorRefreshLockoutDuration

(* ------------------------------------------------------------------ *)
(* Claims about SS3Alarm.startListening()                             *)
(* ------------------------------------------------------------------ *)
\* startListening() resumes in this step from a subscribeToEvents() call that
\* was refused with a RateLimitError
Refused(t) ==
    /\ tasks[t].owner = Listener /\ tasks[t].pc = "done" /\ tasks[t].res = "rle"
    /\ tasks'[t].pc = "idle"

\* the step started one retry timer, due after delay
RetriesAfter(delay) ==
    \E tm \in listenTimers' \ listenTimers :
        /\ listenTimers' = listenTimers \cup {tm}
        /\ tm.at = now + delay

\* the alarm's callback was called with event in the step
AlarmGot(event) ==
    \E i \in 1 .. Len(dispatch'.to) : dispatch'.to[i] = <<AlarmCallback, event>>

Min(a, b) == IF a <= b THEN a ELSE b

\* C12 (as claimed): a refused subscription is retried after 1 s times 2 to
\* the failure count, up to a cap (here the ceiling of the rate limiter, the
\* only ceiling the program defines), and the count goes up by one; CONNECTED
\* resets the count; after CONNECTION_LOST the retry comes after 1 s.
C12_BackoffDoublesUpToCap ==
    [][/\ \A t \in TaskIds :
            Refused(t) =>
               /\ RetriesAfter(Min(Pow2(nSocketConnectFailures) * SOCKET_RETRY_INTERVAL,
                                   rateLimitMaxInterval))
               /\ nSocketConnectFailures' = nSocketConnectFailures + 1
       /\ AlarmGot("CONNECTED") => nSocketConnectFailures' = 0
       /\ AlarmGot("CONNECTION_LOST") => RetriesAfter(SOCKET_RETRY_INTERVAL)]_vars

\* what startListening() does: the same without any cap
C12_BackoffDoublesUncapped ==
    [][/\ \A t \in TaskIds :
            Refused(t) =>
               /\ RetriesAfter(Pow2(nSocketConnectFailures) * SOCKET_RETRY_INTERVAL)
               /\ nSocketConnectFailures' = nSocketConnectFailures + 1
       /\ AlarmGot("CONNECTED") => nSocketConnectFailures' = 0
       /\ AlarmGot("CONNECTION_LOST") => RetriesAfter(SOCKET_RETRY_INTERVAL)
       /\ nSocketConnectFailures' # nSocketConnectFailures =>
              \/ AlarmGot("CONNECTED")
              \/ \E t \in TaskIds : Refused(t)]_vars

(* ------------------------------------------------------------------ *)
(* Claims about the event socket                                      *)
(* ------------------------------------------------------------------ *)
\* C14 (as claimed): after any number of subscribeToEvents() calls, also
\* calls made while a socket exists, each transport event is delivered
\* once, not once per subscribe call: the newest subscription replaces the
\* listeners attached before.
C14_EachEventDeliveredOnce ==
    /\ Len(dispatch.to) <= 1
    /\ dispatch.ev \in {"connect", "reconnect_failed"} => Len(dispatch.to) = 1

OpenSockets == {s \in SocketIds : sockets[s].st = "open"}

\* C15 (as claimed): at most one socket opened by the client is open, and
\* the handle is never overwritten by a new connection while the old one is
\* open, also when subscribeToEvents() calls overlap while the user id is
\* being resolved.
C15_AtMostOneOpenSocket ==
    /\ Cardinality(OpenSockets) <= 1
    /\ \A s \in OpenSockets : socket = s

(* ------------------------------------------------------------------ *)
(* Claims about the fan-out of the poll tick                          *)
(* ------------------------------------------------------------------ *)
\* the poll tick resumes in this step from a getSensors() call that succeeded
PollOk(t) ==
    /\ tasks[t].owner = Poller /\ tasks[t].pc = "done" /\ tasks[t].res = "ok"
    /\ tasks'[t].pc = "idle"

\* how often x occurs in seq
Count(seq, x) == Cardinality({i \in 1 .. Len(seq) : seq[i] = x})

\* C16: when a poll tick completes, each sensor of the list goes to exactly
\* the subscribers registered at that moment whose id is the sensor's
\* serial, once per registration; a sensor nobody subscribed to, and a
\* subscriber removed before the completion, get no call; no other step
\* calls a sensor callback.
C16_SensorsReachMatchingSubscribers ==
    [][/\ \A t \in TaskIds :
            PollOk(t) =>
               /\ dispatch'.ev = "sensors"
               /\ \A i \in 1 .. Len(dispatch'.to) :
                      dispatch'.to[i] \in SensorCallbacks \X SensorIds
               /\ \A cb \in SensorCallbacks, serial \in SensorIds :
                      Count(dispatch'.to, <<cb, serial>>) =
                          IF serial \in Serials(tasks[t].code)
                          THEN Count(sensorSubscriptions, [id |-> serial, callback |-> cb])
                          ELSE 0
       /\ dispatch'.ev = "sensors" => \E t \in TaskIds : PollOk(t)]_vars

\* a tick completed with two subscribers registered for different sensors,
\* and only the one whose sensor was in the list was called
C16_Witness ==
    /\ dispatch.ev = "sensors"
    /\ sensorSubscriptions = <<[id |-> 1, callback |-> 1], [id |-> 2, callback |-> 2]>>
    /\ dispatch.to = <<<<2, 2>>>>

(* ------------------------------------------------------------------ *)
(* Claims about getAlarmState()                                       *)
(* ------------------------------------------------------------------ *)
\* call t of getAlarmState() resumes in this step with a subscription that
\* its getSubscription() call returned
GotSubscription(t) ==
    /\ tasks[t].op = "getAlarmState" /\ tasks[t].pc = "main"
    /\ reqs[tasks[t].wait].phase = "ok"
    /\ tasks'[t] # tasks[t]

\* the subscription has a system that is not alarming and whose alarmState
\* is none of the known ones
Unrecognised(subscription) ==
    /\ subscription.system /\ ~subscription.isAlarming
    /\ subscription.alarmState \notin validStates

\* the step issued a forced request for the subscription on behalf of call
\* t, which now awaits it
Refetched(t) ==
    /\ tasks'[t].pc = "main" /\ tasks'[t].issued
    /\ reqs'[tasks'[t].wait].kind = "sub"
    /\ reqs'[tasks'[t].wait].phase \in {"http1", "rle"}
    /\ lastSubscriptionRequests'[subId] = tasks'[t].wait

\* C17: getAlarmState() returns one of the seven known states or raises; it
\* returns ALARM whenever the system is alarming; on an unrecognised
\* alarmState it fetches the subscription again, forced, exactly once, and
\* raises 'Alarm state not understood' if the state is unrecognised again.
C17_KnownStateOrError ==
    [][\A t \in TaskIds :
          /\ (tasks[t].op = "getAlarmState" /\ tasks'[t].pc = "done") =>
                /\ tasks'[t].res \notin {"ok", "none"}
                /\ tasks'[t].res \notin validStates =>
                       \/ tasks'[t].res \in {"Alarm state not understood",
                                              "Subscription format not understood",
                                              "noplan", "multi"}
                       \/ tasks'[t].res = reqs[tasks[t].wait].phase
                /\ tasks'[t].res \in validStates => GotSubscription(t)
          /\ GotSubscription(t) =>
                LET subscription == SubBody(reqs[tasks[t].wait].n)
                IN /\ (subscription.system /\ subscription.isAlarming) =>
                          tasks'[t].pc = "done" /\ tasks'[t].res = "ALARM"
                   /\ (Unrecognised(subscription) /\ tasks[t].arg = <<>>) =>
                          Refetched(t) /\ tasks'[t].arg = <<"retry">>
                   /\ (Unrecognised(subscription) /\ tasks[t].arg = <<"retry">>) =>
                          /\ tasks'[t].pc = "done"
                          /\ tasks'[t].res = "Alarm state not understood"
                          /\ \A i \in Slots : reqs'[i] = reqs[i] \/ reqs'[i] = FreeReq
          /\ (tasks'[t].arg = <<"retry">> /\ tasks[t].arg # <<"retry">>) =>
                /\ GotSubscription(t)
                /\ Unrecognised(SubBody(reqs[tasks[t].wait].n))]_vars

\* a call failed with 'Alarm state not understood' after its forced second
\* fetch
C17_Witness ==
    \E t \in TaskIds :
        /\ tasks[t].pc = "done" /\ tasks[t].res = "Alarm state not understood"
        /\ lastSubscriptionRequests[TheSub] # Null
        /\ reqs[lastSubscriptionRequests[TheSub]].phase = "ok"
        /\ Unrecognised(SubBody(reqs[lastSubscriptionRequests[TheSub]].n))

(* ------------------------------------------------------------------ *)
(* Claims about the expiry of the cache entries                       *)
(* ------------------------------------------------------------------ *)
\* the step removes the request i from the cache that held it
Evicted(i) ==
    \/ \E k \in SubIds : lastSubscriptionRequests[k] = i /\ lastSubscriptionRequests'[k] = Null
    \/ lastSensorRequest = i /\ lastSensorRequest' = Null
    \/ lastLockRequest = i /\ lastLockRequest' = Null

\* C20 (as claimed): a cache entry is removed 3 seconds after its own
\* request has settled, never earlier by the timer of a previous request for
\* the key: an entry whose request has not settled, or has settled in the
\* step before, is not removed.
C20_EvictedAfterOwnSettle ==
    [][\A i \in Slots : Evicted(i) =>
          /\ Settled(reqs[i])
          /\ \E tm \in evictTimers :
                /\ tm.kind = reqs[i].kind /\ tm.key = reqs[i].key
                /\ tm.at = now
                /\ evictTimers' = evictTimers \ {tm}]_vars

(* ------------------------------------------------------------------ *)
(* Claims about failed cached requests                                *)
(* ------------------------------------------------------------------ *)
Failed(r) == r.phase \in {"rle", "err"}

\* the cache slot of getSensors() and of getLocks()
CacheOf(op) == IF op = "getSensors" THEN lastSensorRequest ELSE lastLockRequest

\* call t of getSensors() or getLocks() reaches the await of its cached
\* request in this step
JoinsCache(t) ==
    /\ tasks[t].pc # "main"
    /\ tasks'[t].pc = "main"
    /\ tasks'[t].op \in {"getSensors", "getLocks"}

\* C21: when a cached request fails, every caller that awaits it gets that
\* error; while the failed request is the cache entry, a call that is not
\* forced joins it and issues no request; the failed entry has its expiry
\* timer pending, due within the TTL; a call that finds the cache empty
\* issues a fresh request.
C21_FailureSharedUntilEvicted ==
    [][/\ \A t \in TaskIds :
            /\ (tasks[t].op \in {"getSensors", "getLocks"} /\ tasks[t].pc = "main"
                    /\ Failed(reqs[tasks[t].wait]) /\ tasks'[t] # tasks[t]) =>
                  /\ tasks'[t].pc = "done"
                  /\ tasks'[t].res = reqs[tasks[t].wait].phase
                  /\ tasks'[t].code = reqs[tasks[t].wait].code
            /\ (JoinsCache(t) /\ ~tasks'[t].force /\ CacheOf(tasks'[t].op) # Null
                    /\ Failed(reqs[CacheOf(tasks'[t].op)])) =>
                  /\ tasks'[t].wait = CacheOf(tasks'[t].op)
                  /\ ~tasks'[t].issued
                  /\ \A i \in Slots : reqs'[i] # reqs[i] => reqs'[i] = FreeReq
            /\ (JoinsCache(t) /\ CacheOf(tasks'[t].op) = Null) =>
                  /\ tasks'[t].issued
                  /\ reqs'[tasks'[t].wait].phase \in {"http1", "rle"}
                  /\ reqs'[tasks'[t].wait].attempts <= 1
       /\ \A op \in {"getSensors", "getLocks"} :
            (CacheOf(op) # Null /\ Failed(reqs[CacheOf(op)])) =>
               \E tm \in evictTimers :
                   /\ tm.kind = reqs[CacheOf(op)].kind
                   /\ tm.at >= now /\ tm.at <= now + sensorCacheTime]_vars

\* two callers got the error of the one failed sensors request that is still
\* the cache entry
C21_Witness ==
    /\ lastSensorRequest # Null
    /\ reqs[lastSensorRequest].phase = "err" /\ reqs[lastSensorRequest].code = 409
    /\ \A t \in TaskIds :
          tasks[t].pc = "done" /\ tasks[t].res = "err" /\ tasks[t].code = 409
    /\ \A i \in Slots \ {lastSensorRequest} : ~Failed(reqs[i])

(* ------------------------------------------------------------------ *)
(* Claims about SS3Alarm.setTargetState()                             *)
(* ------------------------------------------------------------------ *)
\* operation o resumes in this step from a setAlarmState() call that was
\* rejected with one of the statuses
FailsWith(o, statuses) ==
    /\ ops[o].st = "calling"
    /\ ops'[o].st # "calling"
    /\ \E t \in Ended(State, o) : tasks[t].res = "err" /\ tasks[t].code \in statuses

\* C8: an operation that no other operation overlaps and whose
\* setAlarmState() calls fail with 409 or 504 is retried 1 second after each
\* of its first 5 failures; its 6th failure goes to the callback as an
\* error and schedules no retry.
C8_FiveRetriesThenError ==
    [][\A o \in OpIds :
         /\ (ops[o].solo /\ FailsWith(o, {409, 504})) =>
                IF ops[o].attempts <= 5
                THEN /\ ops'[o].st = "waiting"
                     /\ ops'[o].retryAt = now + 1000
                     /\ ops'[o].cb = "none"
                ELSE /\ ops[o].attempts = 6
                     /\ ops'[o].st = "done"
                     /\ ops'[o].cb = "error"
                     /\ ops'[o].retryAt = Null
         /\ (ops[o].solo /\ ops[o].st = "waiting" /\ ops'[o] # ops[o] /\ ops'[o].solo) =>
                /\ now = ops[o].retryAt
                /\ ops'[o].st = "calling"
                /\ ops'[o].attempts = ops[o].attempts + 1]_vars

\* an operation ended by its 6th failure, the plan having been found
C8_Witness ==
    \E o \in OpIds :
        /\ ops[o].solo /\ ops[o].st = "done" /\ ops[o].cb = "error"
        /\ ops[o].attempts = 6
        /\ subId # Null

(* ------------------------------------------------------------------ *)
(* Claims about the sensor poller                                     *)
(* ------------------------------------------------------------------ *)
\* C10: the polling timer is running exactly when the subscriber registry
\* is non-empty.
C10_TimerRunsIffSubscribers ==
    (intervals # {}) <=> (Len(sensorSubscriptions) > 0)


\* C22: every poll tick that is not skipped issues a fresh sensors request:
\* the getSensors() call of the tick, when it reaches the cache, issues a
\* request of its own, also when the cache entry is live.
C22_TickIssuesFreshRequest ==
    [][\A t \in TaskIds :
         (JoinsCache(t) /\ tasks'[t].owner = Poller) => tasks'[t].issued]_vars

\* the setInterval() of the poller fires in this step
Ticks == \E tm \in intervals : \E tn \in intervals' : tn.id = tm.id /\ tn.at # tm.at

\* C23: a poll tick that fires while the registry is empty or the lockout
\* timer is pending issues no request, calls no subscriber and changes no
\* state of the client; the step that arms the lockout leaves a sensors
\* request that is in flight, and the calls that await it, as they are.
C23_SkippedTickChangesNothing ==
    [][/\ (Ticks /\ (Len(sensorSubscriptions) = 0 \/ sensorRefreshLockoutTimeout # Null)) =>
            /\ dispatch'.to = <<>>
            /\ UNCHANGED <<isBlocked, nextAttempt, nextBlockInterval, reqs, userId, subId,
                           lastSubscriptionRequests, lastSensorRequest, lastLockRequest,
                           evictTimers, tasks, sensorRefreshLockoutEnabled,
                           sensorRefreshLockoutTimeout, lockoutTimers,
                           sensorRefreshInterval, sensorSubscriptions, debug,
                           nSuppressedErrors, errorSupperessionTimeout, socket, sockets>>
       /\ (sensorRefreshLockoutTimeout' # Null
              /\ sensorRefreshLockoutTimeout' # sensorRefreshLockoutTimeout) =>
            \A i \in Slots :
                (reqs[i].kind = "sensors" /\ Unsettled(reqs[i])) =>
                    /\ reqs'[i] = reqs[i]
                    /\ lastSensorRequest = i => lastSensorRequest' = i
                    /\ \A t \in TaskIds : tasks[t].wait = i => tasks'[t] = tasks[t]]_vars

\* the lockout is pending, armed while the sensors request of an earlier
\* tick was in flight, and the tick due at 30 s has fired and started no call
C23_Witness ==
    /\ sensorRefreshLockoutTimeout # Null
    /\ Len(sensorSubscriptions) > 0
    /\ now = 2 * sensorRefreshTime
    /\ \A tm \in intervals : tm.at = 3 * sensorRefreshTime
    /\ intervals # {}
    /\ \E t \in TaskIds : /\ tasks[t].owner = Poller /\ tasks[t].pc = "main"
                           /\ Unsettled(reqs[tasks[t].wait])
                           /\ reqs[tasks[t].wait].kind = "sensors"
    /\ \A t, u \in TaskIds : (tasks[t].owner = Poller /\ tasks[u].owner = Poller) => t = u

\* the events whose delivery is followed by handleSensorRefreshLockout()
ArmingEvents == {"ALARM_DISARM", "ALARM_CANCEL", "HOME_ARM", "AWAY_ARM"}

\* the step called some callback with one of the arming events
DeliversArming ==
    \E k \in 1 .. Len(dispatch'.to) : dispatch'.to[k][2] \in ArmingEvents

\* the lockout timer is started or replaced in the step
ArmedOrExtended ==
    /\ sensorRefreshLockoutTimeout' # Null
    /\ <<sensorRefreshLockoutTimeout, lockoutTimers>>' #
           <<sensorRefreshLockoutTimeout, lockoutTimers>>

\* a setAlarmState() call ends with an error in the step
SetFails(t) ==
    /\ tasks[t].op = "setAlarmState" /\ tasks[t].pc \in Awaiting
    /\ tasks'[t].pc = "done" /\ tasks'[t].res # "ok"

\* C24: the lockout is armed, when the lock hardware is enabled, by the
\* delivery of ALARM_DISARM, ALARM_CANCEL, HOME_ARM or AWAY_ARM (the callback
\* has been called in the step that arms it) and by a successful
\* setAlarmState(); no other push, and no failed setAlarmState(), arms or
\* extends it.
C24_ArmedByFourEventsAndSet ==
    [][/\ DeliversArming => LockoutHandled
       /\ \A t \in TaskIds : Arms(t) => LockoutHandled
       /\ ArmedOrExtended =>
             /\ sensorRefreshLockoutEnabled
             /\ \/ IsPush /\ DeliversArming
                \/ \E t \in TaskIds : Arms(t)
       /\ (IsPush /\ ~DeliversArming) =>
             UNCHANGED <<sensorRefreshLockoutTimeout, lockoutTimers>>
       /\ (\E t \in TaskIds : SetFails(t)) =>
             UNCHANGED <<sensorRefreshLockoutTimeout, lockoutTimers>>]_vars

\* the lockout, armed before, has just been extended by the push of an
\* AWAY_ARM that the alarm's callback has received: the second timer is the
\* one that is pending
C24_Witness ==
    /\ dispatch.ev = "event"
    /\ dispatch.to = <<<<AlarmCallback, "AWAY_ARM">>>>
    /\ sensorRefreshLockoutTimeout = 2
    /\ \E tm \in lockoutTimers : /\ tm.id = 2
                                  /\ tm.at = now + sensorRefreshLockoutDuration
                                  /\ now > 0

\* the step called some callback with event
Delivers(event) == \E k \in 1 .. Len(dispatch'.to) : dispatch'.to[k][2] = event

\* C25: when CONNECTION_LOST is delivered, the socket that raised it has its
\* listeners detached and is closed, and the client's socket handle is null;
\* when DISCONNECT is delivered, the handle and the listeners are as before.
C25_LostSocketIsTornDown ==
    [][/\ Delivers("CONNECTION_LOST") =>
             /\ sockets'[dispatch'.s].subs = <<>>
             /\ sockets'[dispatch'.s].st = "closed"
             /\ socket' = Null
       /\ Delivers("DISCONNECT") =>
             /\ socket' = socket
             /\ sockets'[dispatch'.s] = sockets[dispatch'.s]]_vars

\* subscribeToEvents() is called in the step, as call t
SubscribeCalled(t) == Free(State, t) /\ tasks'[t] # tasks[t]

\* C26: subscribeToEvents() called while isBlocked and now < nextAttempt
\* fails with RateLimitError, opens no socket, attaches no listener to the
\* socket there is, and issues no request.
C26_BlockedSubscribeDoesNothing ==
    [][\A t \in TaskIds :
         (SubscribeCalled(t) /\ isBlocked /\ now < nextAttempt) =>
            /\ tasks'[t].pc = "done"
            /\ tasks'[t].res = "rle"
            /\ socket' = socket
            /\ sockets' = sockets
            /\ \A i \in Slots : reqs'[i] = reqs[i] \/ reqs'[i] = FreeReq]_vars

\* a call was refused at its entry while the socket is open: the socket has
\* the one listener it had
C26_Witness ==
    /\ isBlocked /\ now < nextAttempt
    /\ socket # Null
    /\ sockets[socket].st = "open"
    /\ sockets[socket].subs = <<OtherCallback>>
    /\ \E t \in TaskIds : tasks[t].pc = "done" /\ tasks[t].res = "rle" /\ tasks[t].code = 0
    /\ \A i \in Slots : reqs[i].kind # "authCheck"

\* call t of subscribeToEvents() goes on from pc in the step
SubscribeResumes(t, pc) ==
    /\ tasks[t].op = "subscribeToEvents" /\ tasks[t].pc = pc
    /\ tasks'[t] # tasks[t]

\* C27 (as claimed): a subscribeToEvents() call that the guard does not
\* block at its entry completes without raising.
C27_FailsOnlyAtEntry ==
    [][\A t \in TaskIds :
         /\ (SubscribeCalled(t) /\ ~(isBlocked /\ now < nextAttempt) /\ tasks'[t].pc = "done")
                => tasks'[t].res = "ok"
         /\ \A pc \in {"yield", "authCheck"} :
                (SubscribeResumes(t, pc) /\ tasks'[t].pc = "done") => tasks'[t].res = "ok"]_vars

\* C27 (amended): a subscribeToEvents() call fails at the rate-limit test
\* at its entry or, when there is no socket and the user id is not known
\* yet, with what the /authCheck request of getUserId() is rejected with, and
\* then no socket is made and no listener attached; in every other case it
\* completes without raising, with its listeners attached. A transport error,
\* an exhausted reconnection and a disconnect by the server reach every
\* callback attached to the socket as CONNECTION_LOST.
C27_FailsAtEntryOrAuthCheck ==
    [][/\ \A t \in TaskIds :
            /\ SubscribeCalled(t) =>
                  IF isBlocked /\ now < nextAttempt
                  THEN tasks'[t].pc = "done" /\ tasks'[t].res = "rle"
                  ELSE IF socket # Null
                  THEN /\ tasks'[t].pc = "done" /\ tasks'[t].res = "ok"
                       /\ socket' = socket
                       /\ sockets'[socket].subs = Append(sockets[socket].subs, OtherCallback)
                  ELSE IF userId # Null
                  THEN tasks'[t].pc = "yield"
                  ELSE /\ tasks'[t].pc = "authCheck"
                       /\ reqs'[tasks'[t].wait].kind = "authCheck"
            /\ SubscribeResumes(t, "yield") =>
                  /\ tasks'[t].pc = "done" /\ tasks'[t].res = "ok"
                  /\ socket' # Null /\ sockets'[socket'].subs = <<OtherCallback>>
            /\ SubscribeResumes(t, "authCheck") =>
                  IF reqs[tasks[t].wait].phase = "ok"
                  THEN /\ tasks'[t].pc = "done" /\ tasks'[t].res = "ok"
                       /\ socket' # Null /\ sockets'[socket'].subs = <<OtherCallback>>
                  ELSE /\ tasks'[t].pc = "done"
                       /\ tasks'[t].res = reqs[tasks[t].wait].phase
                       /\ tasks'[t].code = reqs[tasks[t].wait].code
                       /\ socket' = socket /\ sockets' = sockets
       /\ (\/ dispatch'.ev = "reconnect_failed"
           \/ dispatch'.ev = "error" /\ dispatch'.arg # "none"
           \/ dispatch'.ev = "disconnect" /\ dispatch'.arg = "io server disconnect") =>
             Delivered("CONNECTION_LOST")]_vars

\* a call made while the guard was not engaged has been rejected with the
\* body of the 409 that /authCheck was answered with: no socket was made
C27_Witness ==
    /\ ~isBlocked
    /\ socket = Null
    /\ \A s \in SocketIds : sockets[s].st = "none"
    /\ \E t \in TaskIds : tasks[t].pc = "done" /\ tasks[t].res = "err" /\ tasks[t].code = 409

\* startListening() resumes in the step from a subscribeToEvents() call that
\* was rejected
ListenFailed ==
    \E t \in TaskIds :
        /\ tasks[t].pc = "done" /\ tasks[t].owner = Listener /\ tasks[t].res # "ok"
        /\ tasks'[t] # tasks[t]

\* a setTimeout() of startListening() is started in the step
RetryScheduled == \E tm \in listenTimers' : tm \notin listenTimers /\ tm.at > now

\* C28: after every CONNECTION_LOST the alarm's callback receives and after
\* every failed subscribe attempt of startListening(), a new attempt is
\* scheduled.
C28_RetryAfterEveryFailure ==
    [][/\ ListenFailed => RetryScheduled
       /\ (\E k \in 1 .. Len(dispatch'.to) :
              dispatch'.to[k] = <<AlarmCallback, "CONNECTION_LOST">>) => RetryScheduled]_vars

\* the setAlarmState() call of operation o has been rejected with a 409 or
\* a 504, and the operation resumes in the step
RetryableFailure(o) ==
    /\ ops[o].st = "calling" /\ ops'[o].st # "calling"
    /\ \E t \in Ended(State, o) : tasks[t].res = "err" /\ tasks[t].code \in {409, 504}

\* C29: every setTargetState operation has a retry budget of its own: it
\* makes at most 6 attempts, and after a 409 or a 504 it retries exactly when
\* it has made fewer than 6 attempts itself, whatever the operations that
\* overlap with it have done.
C29_OwnRetryBudget ==
    [][\A o \in OpIds :
         /\ ops'[o].attempts <= targetStateMaxRetries + 1
         /\ RetryableFailure(o) =>
               (ops'[o].st = "waiting" <=> ops[o].attempts <= targetStateMaxRetries)]_vars

\* C30: every setTargetState operation on a linked alarm comes to its
\* callback, once: with no error when its setAlarmState() call resolved,
\* with an error when the call was rejected and is not retried; an operation
\* that is in progress ends (or has made the MaxAttempts attempts that are
\* followed), and one that has ended calls nothing more.
C30_CallbackOnceEventually ==
    /\ [][\A o \in OpIds :
            /\ (ops[o].st = "calling" /\ ops'[o].st = "done") =>
                  \E t \in Ended(State, o) :
                      /\ ops'[o].cb = (IF tasks[t].res = "ok" THEN "ok" ELSE "error")
                      /\ (tasks[t].res = "err" /\ tasks[t].code \in {409, 504})
                             => nRetries >= targetStateMaxRetries
            /\ (ops[o].st = "calling" /\ ops'[o].st = "waiting") =>
                  \E t \in Ended(State, o) : tasks[t].res = "err" /\ tasks[t].code \in {409, 504}
            /\ ops[o].st = "done" => ops'[o] = ops[o]]_vars
    /\ \A o \in OpIds :
          (service /\ Active(ops[o])) ~>
              ((ops[o].st = "done" /\ ops[o].cb \in {"ok", "error"})
                  \/ ops[o].attempts >= MaxAttempts)

\* both operations have ended: one with an error after its six attempts,
\* the other with no error
C30_Witness ==
    \E o, p \in OpIds :
        /\ ops[o].st = "done" /\ ops[o].cb = "error" /\ ops[o].attempts = targetStateMaxRetries + 1
        /\ ops[p].st = "done" /\ ops[p].cb = "ok"

(* ------------------------------------------------------------------ *)
(* Claims about the suppression of the poll's errors                  *)
(* ------------------------------------------------------------------ *)
\* the poll's getSensors(true) has ended with res and its catch block runs
PollFails(t, res) ==
    /\ tasks[t].owner = Poller /\ tasks[t].pc = "done" /\ tasks[t].res = res
    /\ tasks'[t].pc = "idle"
PollErrors == {"err", "noplan", "multi", "invalid"}
Logs == dispatch'.ev = "log"
WindowFires == errorSupperessionTimeout # Null /\ errorSupperessionTimeout' = Null
\* what the poll's errors do to the window and the counter in quiet mode,
\* and that a RateLimitError does nothing in either mode
CountsQuietly ==
    /\ \A t \in TaskIds, res \in PollErrors :
          (PollFails(t, res) /\ ~debug) =>
              /\ ~Logs
              /\ IF errorSupperessionTimeout = Null
                 THEN /\ nSuppressedErrors' = 1
                      /\ errorSupperessionTimeout' = now + errorSuppressionDuration
                 ELSE /\ nSuppressedErrors' = nSuppressedErrors + 1
                      /\ errorSupperessionTimeout' = errorSupperessionTimeout
    /\ \A t \in TaskIds :
          PollFails(t, "rle") =>
              /\ ~Logs
              /\ nSuppressedErrors' = nSuppressedErrors
              /\ errorSupperessionTimeout' = errorSupperessionTimeout
    /\ Logs /\ ~debug => WindowFires
Summary == dispatch' = logged("warn", nSuppressedErrors)

\* C31: in quiet mode the first poll error that is no RateLimitError, with
\* no window open, opens a window of five minutes with the counter at 1; a
\* further one inside the window adds one to the counter and logs nothing;
\* when the window's timer fires one summary with the counter is logged,
\* the window closes and the counter is reset; a RateLimitError of the poll
\* is never logged and never counted.
C31_SummaryResetsCounter ==
    [][/\ CountsQuietly
       /\ WindowFires => /\ Summary
                         /\ nSuppressedErrors' = 0]_vars

\* C31, as the code has it: the timer's callback logs the summary and
\* closes the window but leaves the counter, which keeps its value until
\* the first error after the window opens the next one and sets it to 1.
C31_SummaryKeepsCounter ==
    [][/\ CountsQuietly
       /\ WindowFires => /\ Summary
                         /\ nSuppressedErrors' = nSuppressedErrors
                         /\ nSuppressedErrors >= 1]_vars

\* the summary of a window with three errors has just been logged, five
\* minutes after the first of them
C31_Witness ==
    /\ ~debug
    /\ dispatch = logged("warn", 3)
    /\ nSuppressedErrors = 3
    /\ errorSupperessionTimeout = Null
    /\ now = sensorRefreshTime + errorSuppressionDuration

(* ------------------------------------------------------------------ *)
(* Claims about the socket's authorization error                      *)
(* ------------------------------------------------------------------ *)
\* C32: whenever the socket reports the error 'Not authorized', isBlocked
\* is true afterwards, in debug and in quiet mode.
C32_NotAuthorizedBlocks ==
    [][(dispatch'.ev = "error" /\ dispatch'.arg = "Not authorized") => isBlocked']_vars

(* ------------------------------------------------------------------ *)
(* Claims about the ids the client learns                             *)
(* ------------------------------------------------------------------ *)
\* call t comes to await the request of getUserId() in this step
AsksUserId(t) == tasks'[t].pc = "authCheck" /\ tasks[t].pc # "authCheck"
\* call t comes into getSubscriptions() in this step
Discovers(t) ==
    /\ tasks'[t].op # "subscribeToEvents"
    /\ tasks'[t].pc \in {"authCheck", "subs"}
    /\ tasks[t].pc \notin {"authCheck", "subs"}
\* a request of the kind goes to the upstream in this step
SentUpstream(i, kind) ==
    reqs'[i].kind = kind /\ reqs'[i].phase = "http1" /\ reqs[i].phase # "http1"

\* C33: once getUserId() has succeeded the user id stays and no later
\* getUserId() asks the upstream; once the subscription id is learned it
\* stays, and no call made from then on enters plan discovery, whatever its
\* forceRefresh: a getSubscription() without an id goes straight to the
\* cached request of the learned subscription.
C33_IdsLearnedOnce ==
    [][/\ userId # Null => userId' = userId
       /\ subId # Null => subId' = subId
       /\ \A t \in TaskIds : AsksUserId(t) => userId = Null
       /\ \A i \in Slots : SentUpstream(i, "authCheck") => userId = Null
       /\ \A t \in TaskIds : Discovers(t) => subId = Null
       /\ \A t \in TaskIds :
             (subId # Null /\ Free(State, t) /\ tasks'[t].op = "getSubscription"
                  /\ tasks'[t].pc # "done" /\ tasks'[t].key # OtherSub) =>
                 /\ tasks'[t].pc = "main"
                 /\ tasks'[t].key = subId
                 /\ reqs'[tasks'[t].wait].kind = "sub"
                 /\ tasks'[t].force => tasks'[t].issued]_vars

\* only one call has ever been in progress at a time; an earlier one has had
\* the learned subscription answered (its eviction timer is pending), and
\* the present getSubscription(null, true) awaits a request of its own for
\* that subscription: no request of the discovery was made for it
C33_Witness ==
    /\ userId = TheUser /\ subId = TheSub
    /\ tasks[2] = IdleTask
    /\ tasks[1].op = "getSubscription" /\ tasks[1].force /\ tasks[1].pc = "main"
    /\ tasks[1].issued /\ tasks[1].key = TheSub
    /\ reqs[tasks[1].wait].kind = "sub" /\ reqs[tasks[1].wait].phase = "http1"
    /\ \E tm \in evictTimers : tm.kind = "sub" /\ tm.key = TheSub
    /\ \A i \in Slots : reqs[i].kind \notin {"authCheck", "subs"}

====
